---- MODULE Spec2Model ----
(***************************************************************************)
(* Analogic Memory System: the memory store (memory_engine.py), the        *)
(* association graph (analogic_core.py), the crypto helpers (security.py)  *)
(* and the backup/restore engine (backup_system.py) as one state machine   *)
(* over the four database tables, the local backup directory and the       *)
(* clock.                                                                  *)
(*                                                                         *)
(* Conventions:                                                            *)
(*   - text (content, user ids, keywords) is a sequence of characters;     *)
(*   - an optional value is <<>> (None / NULL) or <<v>>;                   *)
(*   - timestamps are whole hours on the clock `now`;                      *)
(*   - association strengths are thousandths (1000 = 1.0), relevance       *)
(*     scores are ten-thousandths (10000 = 1.0).                           *)
(***************************************************************************)
EXTENDS Integers, Sequences, FiniteSets, TLC

\* ------------------------------------------------------------------ bounds
MaxMemories == 2        \* rows store_memory may insert
MaxTime     == 2        \* the clock stops here
MaxCount    == 1        \* cap on access_count / message_count
MaxBackups  == 1        \* backup attempts
MaxSessions == 1        \* session rows created
MaxAssocs   == 2        \* association rows created
MaxTicks    == 50       \* iterations of the backup scheduler
MaxFailures == 1        \* scheduled runs that raise
MaxAttempts == 2        \* backup runs made by requests

\* --------------------------------------------------------- program constants
SHORT_TERM_TTL_HOURS == 24
MAX_CONTENT_LENGTH   == 50000
USER_ID_MAX_LENGTH   == 255
AUTO_ASSOCIATE_LIMIT == 50
OVERFETCH_FACTOR     == 3
STRENGTH_ONE         == 1000
SCORE_ONE            == 10000

None == <<>>
Some(v) == <<v>>

Min(a, b) == IF a <= b THEN a ELSE b
Max(a, b) == IF a >= b THEN a ELSE b

Range(s) == {s[i] : i \in 1..Len(s)}

\* ------------------------------------------------------------- security.py
MASTER_KEY == "master"

\* A derivation without the per-user salt.
derive_user_key_unsalted(user_id) == <<"pbkdf2", MASTER_KEY, <<>>>>

\* derive_user_key: PBKDF2 of the master key salted with the user id
derive_user_key(user_id) == <<"pbkdf2", MASTER_KEY, user_id>>

\* encrypt_with_user_key: AES-GCM under the user's derived key
encrypt_with_user_key(plaintext, user_id) ==
    [key |-> derive_user_key(user_id), pt |-> plaintext]

\* decrypt_with_user_key: the tag verifies only under the encrypting key
decrypt_ok(encrypted_data, user_id) ==
    encrypted_data.key = derive_user_key(user_id)

decrypt_with_user_key(encrypted_data, user_id) == encrypted_data.pt

\* hash_content: SHA-256 of the plaintext
hash_content(content) == <<"sha256", content>>

\* checksum_bytes: SHA-256 of raw bytes
checksum_bytes(data) == <<"sha256", data>>

RECURSIVE LStrip(_)
LStrip(s) == IF s # <<>> /\ Head(s) = " " THEN LStrip(Tail(s)) ELSE s

RECURSIVE RStrip(_)
RStrip(s) ==
    IF s # <<>> /\ s[Len(s)] = " " THEN RStrip(SubSeq(s, 1, Len(s) - 1)) ELSE s

Strip(s) == RStrip(LStrip(s))

\* sanitize_input: strip, then reject what is longer than max_length
sanitize_ok(text, max_length) == Len(Strip(text)) <= max_length

sanitize_input(text) == Strip(text)

\* --------------------------------------------------------------- variables
VARIABLES
    memory_entries,        \* table memory_entries: set of rows
    memory_associations,   \* table memory_associations: set of rows
    context_sessions,      \* table context_sessions: set of rows
    backup_catalog,        \* table backup_catalog: set of rows
    files,                 \* BACKUP_DIR: path -> [data, mtime, exported]
    s3_objects,            \* keys uploaded to the remote bucket
    now,                   \* the clock, in hours
    next_id,               \* per table, the next generated row id
    run,                   \* the run_backup call in progress
    pending,               \* store_memory calls in progress, per worker
    last,                  \* the last completed call and what it returned
    scheduler,             \* the schedule_backups loop
    peak                   \* history: entry id -> highest access_count it had

vars == <<memory_entries, memory_associations, context_sessions,
          backup_catalog, files, s3_objects, now, next_id, run,
          pending, last, scheduler, peak>>


\* ------------------------------------------------- database schema (tables)
\* Column defaults of memory_entries rows the INSERT statements leave out.
DEFAULT_IS_ACTIVE == TRUE
DEFAULT_ACCESS_COUNT == 0
DEFAULT_RELEVANCE == SCORE_ONE

\* memory_entries: primary key (id)
memory_pk_conflict(table, row) == \E r \in table : r.id = row.id

\* memory_entries without the content-hash constraint
memory_hash_unconstrained(table, row) == FALSE

\* memory_entries: the unique content-hash-per-user row-level constraint,
\* over the active rows
memory_hash_conflict(table, row) ==
    /\ row.is_active
    /\ \E r \in table : /\ r.is_active
                        /\ r.user_id = row.user_id
                        /\ r.content_hash = row.content_hash

\* A match on the two endpoints alone.
SameTripleAnyType(r, source_id, target_id, association_type) ==
    /\ r.source_memory_id = source_id
    /\ r.target_memory_id = target_id

\* memory_associations: unique (source_memory_id, target_memory_id,
\* association_type), the conflict target of create_association's upsert
SameTriple(r, source_id, target_id, association_type) ==
    /\ r.source_memory_id = source_id
    /\ r.target_memory_id = target_id
    /\ r.association_type = association_type

\* context_sessions: unique (session_id)
session_key_conflict(table, session_id) ==
    \E r \in table : r.session_id = session_id

\* ---------------------------------------------------------- analogic_core.py
ASSOCIATION_TYPES ==
    {"related_to", "caused_by", "leads_to", "contradicts", "supports",
     "part_of", "similar_to", "opposite_of", "derived_from",
     "user_preference"}

\* strength = max(0.0, min(1.0, strength))
ClampStrength(strength) == Max(0, Min(STRENGTH_ONE, strength))

\* ON CONFLICT ... DO NOTHING instead: the existing edge keeps its strength.
UpsertAssociationKeeping(assocs, nid, source_id, target_id, association_type, strength, t) ==
    IF \E r \in assocs : SameTriple(r, source_id, target_id, association_type)
    THEN [assocs |-> assocs, nid |-> nid]
    ELSE [assocs |-> assocs \cup
            {[id |-> nid, source_memory_id |-> source_id,
              target_memory_id |-> target_id,
              association_type |-> association_type,
              strength |-> strength, created_at |-> t]},
          nid |-> nid + 1]

\* The INSERT ... ON CONFLICT (source, target, type) DO UPDATE SET strength
\* of create_association, on the table `assocs` with id generator `nid`.
UpsertAssociation(assocs, nid, source_id, target_id, association_type, strength, t) ==
    IF \E r \in assocs : SameTriple(r, source_id, target_id, association_type)
    THEN [assocs |->
            {IF SameTriple(r, source_id, target_id, association_type)
                THEN [r EXCEPT !.strength = strength] ELSE r : r \in assocs},
          nid |-> nid]
    ELSE [assocs |-> assocs \cup
            {[id |-> nid, source_memory_id |-> source_id,
              target_memory_id |-> target_id,
              association_type |-> association_type,
              strength |-> strength, created_at |-> t]},
          nid |-> nid + 1]

\* Strengths are followed down to here.
StrengthFloor == 0 - STRENGTH_ONE

\* strengthen_association's SET strength = LEAST(1.0, strength + delta)
StrengthenedValue(strength, delta) == Min(STRENGTH_ONE, strength + delta)

\* A candidate SELECT without the user_id condition.
AutoCandidatesAnyUser(mem, new_memory_id, user_id, tags) ==
    {r \in mem : /\ r.id # new_memory_id
                 /\ r.is_active
                 /\ Range(r.tags) \cap Range(tags) # {}}

\* auto_associate: the candidates of the SELECT ... LIMIT 50
AutoCandidates(mem, new_memory_id, user_id, tags) ==
    {r \in mem : /\ r.user_id = user_id
                 /\ r.id # new_memory_id
                 /\ r.is_active
                 /\ Range(r.tags) \cap Range(tags) # {}}

\* strength = len(shared_tags) / max(len(tags), len(row["tags"]), 1)
AutoShared(row_tags, tags) == Cardinality(Range(row_tags) \cap Range(tags))

AutoDenominator(row_tags, tags) == Max(Max(Len(tags), Len(row_tags)), 1)

\* if strength >= 0.1
AutoLinks(row_tags, tags) ==
    10 * AutoShared(row_tags, tags) >= AutoDenominator(row_tags, tags)

\* A strength taken over the tags of the new entry alone.
AutoStrengthOverNew(row_tags, tags) ==
    (2 * STRENGTH_ONE * AutoShared(row_tags, tags) + Max(Len(tags), 1))
    \div (2 * Max(Len(tags), 1))

\* round(strength, 3), in thousandths
AutoStrength(row_tags, tags) ==
    (2 * STRENGTH_ONE * AutoShared(row_tags, tags)
        + AutoDenominator(row_tags, tags))
    \div (2 * AutoDenominator(row_tags, tags))

\* The loop of auto_associate over the fetched rows, in fetch order.
RECURSIVE AutoLoop(_, _, _, _, _, _, _)
AutoLoop(rows, assocs, nid, created, new_memory_id, tags, t) ==
    IF rows = <<>>
    THEN [assocs |-> assocs, nid |-> nid, created |-> created]
    ELSE LET row == Head(rows) IN
         IF AutoLinks(row.tags, tags)
         THEN LET up == UpsertAssociation(assocs, nid, new_memory_id, row.id,
                            "related_to",
                            ClampStrength(AutoStrength(row.tags, tags)), t)
              IN AutoLoop(Tail(rows), up.assocs, up.nid, created + 1,
                          new_memory_id, tags, t)
         ELSE AutoLoop(Tail(rows), assocs, nid, created, new_memory_id,
                       tags, t)

\* All orders in which a query without ORDER BY may return the set S.
RECURSIVE Orders(_)
Orders(S) ==
    IF S = {} THEN {<<>>}
    ELSE UNION {{<<x>> \o o : o \in Orders(S \ {x})} : x \in S}

\* The sets of rows a LIMIT n without ORDER BY may keep.
Limited(S, n) ==
    IF Cardinality(S) <= n THEN {S}
    ELSE {T \in SUBSET S : Cardinality(T) = n}


\* compute_relevance_score ---------------------------------------------------
LowerChar(c) == CASE c = "A" -> "a" [] c = "B" -> "b" [] OTHER -> c

Lower(s) == [i \in 1..Len(s) |-> LowerChar(s[i])]

\* str.split(): the maximal runs of non-blank characters
RECURSIVE SplitFrom(_, _, _)
SplitFrom(s, word, acc) ==
    IF s = <<>>
    THEN IF word = <<>> THEN acc ELSE Append(acc, word)
    ELSE IF Head(s) = " "
         THEN SplitFrom(Tail(s), <<>>,
                        IF word = <<>> THEN acc ELSE Append(acc, word))
         ELSE SplitFrom(Tail(s), Append(word, Head(s)), acc)

Split(s) == SplitFrom(s, <<>>, <<>>)

\* kw in content_lower
Contains(content, kw) ==
    \E i \in 0..(Len(content) - Len(kw)) :
        SubSeq(content, i + 1, i + Len(kw)) = kw

\* math.log1p(n) / math.log1p(100), times 10^7, for n = 0, 1, 2, ...
FREQ_TABLE ==
    <<0, 1501905, 2380463, 3003810, 3487315, 3882368, 4216380, 4505714,
      4760926, 4989220, 5195737, 5384273, 5557708>>

\* math.exp(-h / 24.0), times 10^7, for h = 0, 1, 2, ...
RECENCY_TABLE ==
    <<10000000, 9591895, 9200444, 8824969, 8464817, 8119363, 7788008,
      7470175, 7165313, 6872893, 6592406, 6323367, 6065307, 5817778,
      5580351, 5352614, 5134171, 4924643, 4723666, 4530890, 4345982,
      4168620, 3998497, 3835316, 3678794, 3528661, 3384654, 3246525,
      3114032, 2986947, 2865048, 2748124, 2635971, 2528396, 2425211,
      2326237, 2231302, 2140241, 2052897, 1969117, 1888756, 1811675,
      1737739, 1666821, 1598797, 1533550, 1470965, 1410934, 1353353,
      1298122, 1245145, 1194330, 1145588, 1098836, 1053992, 1010978,
      969720, 930145, 892185, 855775, 820850, 787351, 755218, 724398,
      694835, 666478, 639279, 613189, 588165, 564161, 541138, 519054,
      497871, 477552, 458063, 439369, 421438, 404239, 387742, 371918,
      356740, 342181, 328217, 314822, 301974, 289650, 277829, 266491,
      255615, 245184, 235177, 225580, 216374, 207543, 199073, 190949,
      183156, 175682, 168512, 161635, 155039, 148711, 142642, 136821,
      131237, 125881, 120744, 115816, 111090, 106556, 102208, 98037,
      94036, 90198, 86517, 82986, 79599, 76351, 73235, 70246, 67379>>

\* The same ratio for two larger counts: log1p(100) / log1p(100) and
\* log1p(150) / log1p(100), times 10^7.
FREQ_FAR == [n \in {100, 150} |-> IF n = 100 THEN 10000000 ELSE 10871395]

freq_score(access_count) ==
    IF access_count < Len(FREQ_TABLE) THEN FREQ_TABLE[access_count + 1]
    ELSE FREQ_FAR[access_count]

recency_score(recency_hours) == RECENCY_TABLE[recency_hours + 1]

\* matches = sum(1 for kw in keywords_lower if kw in content_lower)
KeywordMatches(query_keywords, memory_content) ==
    Cardinality({i \in 1..Len(query_keywords) :
                    Contains(Lower(memory_content), Lower(query_keywords[i]))})

\* total = 0.50 * keyword + 0.20 * freq + 0.30 * recency, times 10^9
WeightedTotal(query_keywords, memory_content, access_count, recency_hours) ==
    (50 * 10000000 * KeywordMatches(query_keywords, memory_content))
        \div Max(Len(query_keywords), 1)
    + 20 * freq_score(access_count)
    + 30 * recency_score(recency_hours)

\* round(min(1.0, total), 4), in ten-thousandths
compute_relevance_score(query_keywords, memory_content, access_count, recency_hours) ==
    IF memory_content = <<>> \/ query_keywords = <<>>
    THEN 0
    ELSE (Min(1000000000,
              WeightedTotal(query_keywords, memory_content, access_count,
                            recency_hours)) + 50000) \div 100000

\* ---------------------------------------------------------- memory_engine.py
\* An expiry for every store that names a ttl, whatever the scope
ExpiresAtWheneverTtl(scope, ttl_hours, t) ==
    IF scope = "short_term" \/ ttl_hours # None
    THEN Some(t + (IF ttl_hours # None /\ ttl_hours[1] # 0
                   THEN ttl_hours[1] ELSE SHORT_TERM_TTL_HOURS))
    ELSE None

\* expires_at of store_memory: set for short_term only; `ttl_hours or 24`
ExpiresAt(scope, ttl_hours, t) ==
    IF scope = "short_term"
    THEN Some(t + (IF ttl_hours # None /\ ttl_hours[1] # 0
                   THEN ttl_hours[1] ELSE SHORT_TERM_TTL_HOURS))
    ELSE None

\* The row store_memory's INSERT writes (is_active, access_count,
\* relevance_score, created_at and updated_at take the column defaults).
NewMemoryRow(id, user_id, session_id, memory_type, scope, content, tags, expires_at, t) ==
    [id |-> id, user_id |-> user_id, session_id |-> session_id,
     memory_type |-> memory_type, scope |-> scope,
     content_encrypted |-> encrypt_with_user_key(content, user_id),
     content_hash |-> hash_content(content), tags |-> tags,
     relevance_score |-> DEFAULT_RELEVANCE,
     access_count |-> DEFAULT_ACCESS_COUNT,
     created_at |-> t, updated_at |-> t, expires_at |-> expires_at,
     is_active |-> DEFAULT_IS_ACTIVE]

\* A duplicate check that does not look at the user
ExistingIdsAnyUser(mem, user_id, content_hash) ==
    {r.id : r \in {x \in mem : x.content_hash = content_hash /\ x.is_active}}

\* store_memory's duplicate check:
\* SELECT id ... WHERE user_id = $1 AND content_hash = $2 AND is_active
ExistingIds(mem, user_id, content_hash) ==
    {r.id : r \in {x \in mem : /\ x.user_id = user_id
                               /\ x.content_hash = content_hash
                               /\ x.is_active}}

\* (expires_at IS NULL OR expires_at > NOW())
NotExpired(r, t) == r.expires_at = None \/ r.expires_at[1] > t

\* The WHERE clause without the expiry condition
RecallCandidatesUnexpiring(mem, user_id, memory_type, scope, session_id, tags, t) ==
    {r \in mem :
        /\ r.user_id = user_id
        /\ r.is_active
        /\ (memory_type # None => r.memory_type = memory_type[1])
        /\ (scope # None => r.scope = scope[1])
        /\ (session_id # None => r.session_id = session_id)
        /\ (tags # <<>> => Range(r.tags) \cap Range(tags) # {})}

\* recall_memory's WHERE clause
RecallCandidates(mem, user_id, memory_type, scope, session_id, tags, t) ==
    {r \in mem :
        /\ r.user_id = user_id
        /\ r.is_active
        /\ NotExpired(r, t)
        /\ (memory_type # None => r.memory_type = memory_type[1])
        /\ (scope # None => r.scope = scope[1])
        /\ (session_id # None => r.session_id = session_id)
        /\ (tags # <<>> => Range(r.tags) \cap Range(tags) # {})}

\* ORDER BY created_at DESC LIMIT n: every order the database may return
RecallFetches(cands, n) ==
    {SubSeq(o, 1, Min(n, Len(o))) :
        o \in {x \in Orders(cands) :
                 \A i \in 1..(Len(x) - 1) :
                     x[i].created_at >= x[i + 1].created_at}}

\* The scoring loop of recall_memory: rows that fail to decrypt are dropped.
RECURSIVE ScoreRows(_, _, _, _)
ScoreRows(rows, user_id, query_keywords, t) ==
    IF rows = <<>> THEN <<>>
    ELSE LET row == Head(rows)
             rest == ScoreRows(Tail(rows), user_id, query_keywords, t)
         IN IF decrypt_ok(row.content_encrypted, user_id)
            THEN <<[id |-> row.id,
                    relevance_score |->
                        compute_relevance_score(query_keywords,
                            decrypt_with_user_key(row.content_encrypted,
                                                  user_id),
                            row.access_count, t - row.created_at),
                    access_count |-> row.access_count]>> \o rest
            ELSE rest

\* results.sort(key=relevance_score, reverse=True): a stable sort
InsertByScore(sorted, x) ==
    LET k == Cardinality({i \in 1..Len(sorted) :
                            sorted[i].relevance_score >= x.relevance_score})
    IN SubSeq(sorted, 1, k) \o <<x>> \o SubSeq(sorted, k + 1, Len(sorted))

RECURSIVE SortByScore(_, _)
SortByScore(rows, sorted) ==
    IF rows = <<>> THEN sorted
    ELSE SortByScore(Tail(rows), InsertByScore(sorted, Head(rows)))

\* results = results[:limit]
RecallResults(fetched, user_id, query_keywords, limit, t) ==
    LET ranked == SortByScore(ScoreRows(fetched, user_id, query_keywords, t),
                              <<>>)
    IN SubSeq(ranked, 1, Min(limit, Len(ranked)))


\* ------------------------------------------------------------------- inputs
Users       == {<<"u">>, <<"v">>}
RawUsers    == Users
RawContents == {<<"a">>, <<" ", "a">>, <<"B">>}
TagLists    == {<<>>, <<"x">>}
Scopes      == {"long_term", "short_term"}
Workers     == {1, 2}

Idle == [pc |-> "idle"]

\* schedule_backups before its first iteration: hourly_count = 0. `tick`
\* numbers the iterations of the loop, `started` and `failed` tell which runs
\* the current iteration started and whether one of them raised.
SchedulerStart == [pc |-> "primary", hourly_count |-> 0, tick |-> 1, started |-> {}, failed |-> FALSE]

\* The history of access counts after a step that leaves the table `mem`.
PeakAfter(pk, mem) ==
    [id \in DOMAIN pk \cup {r.id : r \in mem} |->
        LET seen == {r.access_count : r \in {x \in mem : x.id = id}}
                        \cup (IF id \in DOMAIN pk THEN {pk[id]} ELSE {})
        IN CHOOSE c \in seen : \A d \in seen : d <= c]

NoCall == [op |-> "none"]

Init ==
    /\ memory_entries = {}
    /\ memory_associations = {}
    /\ context_sessions = {}
    /\ backup_catalog = {}
    /\ files = <<>>
    /\ s3_objects = {}
    /\ now = 0
    /\ next_id = [memory |-> 1, assoc |-> 1, session |-> 1, backup |-> 1]
    /\ run = Idle
    /\ pending = [w \in Workers |-> Idle]
    /\ last = NoCall
    /\ scheduler = SchedulerStart
    /\ peak = <<>>

\* The clock advances.
Tick(d) ==
    /\ now + d <= MaxTime
    /\ now' = now + d
    /\ UNCHANGED <<memory_entries, peak, memory_associations, context_sessions,
                   backup_catalog, files, s3_objects, next_id, run, pending,
                   last, scheduler>>

\* store_memory, from the INSERT on: the row is written unless the table's
\* constraints reject it, then auto_associate links it by tag overlap.
StoreInsert(user_id, content, memory_type, scope, session_id, tags, expires_at) ==
    LET row == NewMemoryRow(next_id.memory, user_id, session_id, memory_type,
                            scope, content, tags, expires_at, now)
    IN
    /\ next_id.memory <= MaxMemories
    /\ IF memory_pk_conflict(memory_entries, row)
          \/ memory_hash_conflict(memory_entries, row)
       THEN /\ last' = [op |-> "store_memory", status |-> "error",
                        error |-> "UniqueViolationError"]
            /\ UNCHANGED <<memory_entries, peak, memory_associations, next_id>>
       ELSE /\ memory_entries' = memory_entries \cup {row}
            /\ peak' = PeakAfter(peak, memory_entries')
            /\ IF tags # <<>>
               THEN \E kept \in Limited(AutoCandidates(memory_entries', row.id,
                                            user_id, tags),
                                        AUTO_ASSOCIATE_LIMIT) :
                    \E existing \in Orders(kept) :
                        LET linked == AutoLoop(existing, memory_associations,
                                               next_id.assoc, 0, row.id, tags,
                                               now)
                        IN /\ linked.nid <= MaxAssocs + 1
                           /\ memory_associations' = linked.assocs
                           /\ next_id' = [next_id EXCEPT
                                            !.memory = @ + 1,
                                            !.assoc = linked.nid]
                           /\ last' = [op |-> "store_memory",
                                       status |-> "stored", id |-> row.id,
                                       user_id |-> user_id,
                                       associations_created |->
                                           Some(linked.created)]
               ELSE /\ next_id' = [next_id EXCEPT !.memory = @ + 1]
                    /\ last' = [op |-> "store_memory", status |-> "stored",
                                id |-> row.id, user_id |-> user_id,
                                associations_created |-> None]
                    /\ UNCHANGED memory_associations

\* store_memory run without interleaving.
store_memory(user_raw, content_raw, memory_type, scope, session_id, tags, ttl_hours) ==
    /\ IF ~sanitize_ok(content_raw, MAX_CONTENT_LENGTH)
          \/ ~sanitize_ok(user_raw, USER_ID_MAX_LENGTH)
       THEN /\ last' = [op |-> "store_memory", status |-> "error",
                        error |-> "ValueError"]
            /\ UNCHANGED <<memory_entries, peak, memory_associations, next_id>>
       ELSE LET content == sanitize_input(content_raw)
                user_id == sanitize_input(user_raw)
                existing == ExistingIds(memory_entries, user_id,
                                        hash_content(content))
            IN IF existing # {}
               THEN /\ \E id \in existing :
                          last' = [op |-> "store_memory",
                                   status |-> "duplicate", id |-> id,
                                   user_id |-> user_id]
                    /\ UNCHANGED <<memory_entries, peak, memory_associations,
                                   next_id>>
               ELSE StoreInsert(user_id, content, memory_type, scope,
                                session_id, tags,
                                ExpiresAt(scope, ttl_hours, now))
    /\ UNCHANGED <<context_sessions, backup_catalog, files, s3_objects, now, scheduler,
                   run, pending>>

\* store_memory when the database fails in auto_associate's SELECT: the
\* INSERT was made on a connection of its own and has been committed, the
\* exception of the SELECT leaves store_memory uncaught.
StoreAutoLinkRaises(user_raw, content_raw, memory_type, scope, session_id, tags, ttl_hours) ==
    LET content == sanitize_input(content_raw)
        user_id == sanitize_input(user_raw)
        row == NewMemoryRow(next_id.memory, user_id, session_id, memory_type,
                            scope, content, tags,
                            ExpiresAt(scope, ttl_hours, now), now)
    IN
    /\ sanitize_ok(content_raw, MAX_CONTENT_LENGTH)
    /\ sanitize_ok(user_raw, USER_ID_MAX_LENGTH)
    /\ ExistingIds(memory_entries, user_id, hash_content(content)) = {}
    /\ next_id.memory <= MaxMemories
    /\ ~memory_pk_conflict(memory_entries, row)
    /\ ~memory_hash_conflict(memory_entries, row)
    /\ tags # <<>>
    /\ memory_entries' = memory_entries \cup {row}
    /\ peak' = PeakAfter(peak, memory_entries')
    /\ next_id' = [next_id EXCEPT !.memory = @ + 1]
    /\ last' = [op |-> "store_memory", status |-> "error",
                error |-> "PostgresError"]
    /\ UNCHANGED <<memory_associations, context_sessions, backup_catalog,
                   files, s3_objects, now, scheduler, run, pending>>

\* An UPDATE over every fetched row instead
RecalledIdsFetched(results, fetched) == {fetched[i].id : i \in 1..Len(fetched)}

\* recalled_ids = [UUID(r["id"]) for r in results]
RecalledIds(results, fetched) == {results[i].id : i \in 1..Len(results)}

\* recall_memory: fetch, decrypt, score, rank, cut, then count the access.
recall_memory(user_id, query, memory_type, scope, session_id, tags, limit) ==
    \E fetched \in RecallFetches(
                      RecallCandidates(memory_entries, user_id, memory_type,
                                       scope, session_id, tags, now),
                      limit * OVERFETCH_FACTOR) :
        LET results == RecallResults(fetched, user_id, Split(Lower(query)),
                                     limit, now)
            recalled_ids == RecalledIds(results, fetched)
        IN /\ \A r \in memory_entries :
                  r.id \in recalled_ids => r.access_count < MaxCount
           /\ memory_entries' =
                  {IF r.id \in recalled_ids
                      THEN [r EXCEPT !.access_count = @ + 1,
                                     !.updated_at = now]
                      ELSE r : r \in memory_entries}
           /\ peak' = PeakAfter(peak, memory_entries')
           /\ last' = [op |-> "recall_memory", user_id |-> user_id,
                       at |-> now, limit |-> limit, results |-> results]
           /\ UNCHANGED <<memory_associations, context_sessions,
                          backup_catalog, files, s3_objects, now, scheduler, next_id, run, pending>>

\* A SELECT by id and user that also returns soft-deleted rows
GetHitsWithInactive(mem, memory_id, user_id) ==
    {r \in mem : r.id = memory_id /\ r.user_id = user_id}

\* get_memory's SELECT ... WHERE id = $1 AND user_id = $2 AND is_active = TRUE
GetHits(mem, memory_id, user_id) ==
    {r \in mem : r.id = memory_id /\ r.user_id = user_id /\ r.is_active}

\* get_memory: nothing when the SELECT finds no row, else the decrypted
\* entry; a row that does not decrypt raises.
get_memory(memory_id, user_id) ==
    LET hit == GetHits(memory_entries, memory_id, user_id)
    IN /\ IF hit = {}
          THEN last' = [op |-> "get_memory", id |-> memory_id,
                        user_id |-> user_id, status |-> "ok",
                        result |-> None]
          ELSE \E row \in hit :
                 IF ~decrypt_ok(row.content_encrypted, user_id)
                 THEN last' = [op |-> "get_memory", id |-> memory_id,
                               user_id |-> user_id, status |-> "error",
                               result |-> None]
                 ELSE last' = [op |-> "get_memory", id |-> memory_id,
                               user_id |-> user_id, status |-> "ok",
                               result |-> Some(
                                  [id |-> row.id, user_id |-> row.user_id,
                                   memory_type |-> row.memory_type,
                                   scope |-> row.scope,
                                   content |-> decrypt_with_user_key(
                                       row.content_encrypted, user_id),
                                   tags |-> row.tags,
                                   access_count |-> row.access_count,
                                   created_at |-> row.created_at,
                                   expires_at |-> row.expires_at])]
       /\ UNCHANGED <<memory_entries, peak, memory_associations,
                      context_sessions, backup_catalog, files, s3_objects,
                      now, scheduler, next_id, run, pending>>

\* delete_memory: UPDATE ... SET is_active = FALSE WHERE id AND user_id
delete_memory(memory_id, user_id) ==
    LET hit == {r \in memory_entries :
                   r.id = memory_id /\ r.user_id = user_id}
    IN /\ memory_entries' =
              {IF r \in hit
                  THEN [r EXCEPT !.is_active = FALSE, !.updated_at = now]
                  ELSE r : r \in memory_entries}
       /\ peak' = PeakAfter(peak, memory_entries')
       /\ last' = [op |-> "delete_memory", id |-> memory_id,
                   user_id |-> user_id, deleted |-> (Cardinality(hit) = 1)]
       /\ UNCHANGED <<memory_associations, context_sessions, backup_catalog,
                      files, s3_objects, now, scheduler, next_id, run, pending>>

\* A DELETE of every short_term row, expired or not
PurgeHitsAnyShortTerm(mem, t) == {r \in mem : r.scope = "short_term"}

\* purge_expired_memories:
\* DELETE ... WHERE scope = 'short_term' AND expires_at < NOW()
PurgeHits(mem, t) ==
    {r \in mem : /\ r.scope = "short_term"
                 /\ r.expires_at # None
                 /\ r.expires_at[1] < t}

purge_expired_memories ==
    /\ memory_entries' = memory_entries \ PurgeHits(memory_entries, now)
    /\ peak' = PeakAfter(peak, memory_entries')
    /\ last' = [op |-> "purge_expired_memories",
                count |-> Cardinality(PurgeHits(memory_entries, now))]
    /\ UNCHANGED <<memory_associations, context_sessions, backup_catalog,
                   files, s3_objects, now, scheduler, next_id, run, pending>>

\* encrypt / decrypt under the master key (session context)
encrypt(plaintext) == [key |-> MASTER_KEY, pt |-> plaintext]

\* json.dumps({"messages": [], "user_id": user_id})
InitialContext(user_id) == [messages |-> <<>>, user_id |-> user_id]

\* A refresh that starts the session over.
RefreshedSessionReset(r, t) ==
    [r EXCEPT !.last_active_at = t, !.message_count = 0]

\* ON CONFLICT (session_id) DO UPDATE SET last_active_at = NOW()
RefreshedSession(r, t) == [r EXCEPT !.last_active_at = t]

\* create_session: INSERT ... ON CONFLICT (session_id) DO UPDATE
\*                 SET last_active_at = NOW()
create_session(user_id, session_id) ==
    /\ IF session_key_conflict(context_sessions, session_id)
       THEN /\ context_sessions' =
                  {IF r.session_id = session_id
                      THEN RefreshedSession(r, now)
                      ELSE r : r \in context_sessions}
            /\ UNCHANGED next_id
       ELSE /\ next_id.session <= MaxSessions
            /\ context_sessions' = context_sessions \cup
                  {[id |-> next_id.session, user_id |-> user_id,
                    session_id |-> session_id,
                    context_data_encrypted |->
                        Some(encrypt(InitialContext(user_id))),
                    message_count |-> 0, started_at |-> now,
                    last_active_at |-> now, is_active |-> TRUE]}
            /\ next_id' = [next_id EXCEPT !.session = @ + 1]
    /\ last' = [op |-> "create_session", session_id |-> session_id,
                user_id |-> user_id]
    /\ UNCHANGED <<memory_entries, peak, memory_associations, backup_catalog, files,
                   s3_objects, now, scheduler, run, pending>>

\* An UPDATE without the is_active condition.
UpdateHitsInactiveToo(sessions, session_id) ==
    {r \in sessions : r.session_id = session_id}

\* update_session_context: WHERE session_id = $2 AND is_active = TRUE
UpdateHits(sessions, session_id) ==
    {r \in sessions : r.session_id = session_id /\ r.is_active}

\* update_session_context: UPDATE ... WHERE session_id = $2 AND is_active
update_session_context(session_id, context_data) ==
    LET hit == UpdateHits(context_sessions, session_id)
    IN /\ \A r \in hit : r.message_count < MaxCount
       /\ context_sessions' =
              {IF r \in hit
                  THEN [r EXCEPT
                          !.context_data_encrypted =
                              Some(encrypt(context_data)),
                          !.message_count = @ + 1,
                          !.last_active_at = now]
                  ELSE r : r \in context_sessions}
       /\ last' = [op |-> "update_session_context",
                   session_id |-> session_id,
                   updated |-> (Cardinality(hit) = 1)]
       /\ UNCHANGED <<memory_entries, peak, memory_associations, backup_catalog,
                      files, s3_objects, now, scheduler, next_id, run, pending>>

\* The active flag of a session is cleared. None of the methods of
\* MemoryEngine does it; the column is written from outside them.
DeactivateSession(session_id) ==
    /\ \E r \in context_sessions : r.session_id = session_id /\ r.is_active
    /\ context_sessions' =
          {IF r.session_id = session_id
              THEN [r EXCEPT !.is_active = FALSE]
              ELSE r : r \in context_sessions}
    /\ UNCHANGED <<memory_entries, peak, memory_associations, backup_catalog,
                   files, s3_objects, now, scheduler, next_id, run, pending,
                   last>>

\* ---------------------------------------------------------- backup_system.py
MAX_LOCAL_BACKUPS == 48
S3_AVAILABLE == TRUE
BackupTypes == {"primary", "secondary", "archive"}

\* row_to_dict: datetime -> isoformat(), bytes -> tagged base64, UUID -> str
IsoFormat(t) == <<"iso", t>>
FromIsoFormat(x) == x[2]
B64Encode(b) == <<"b64", b>>
B64Decode(x) == x[2]
UuidStr(id) == <<"uuid", id>>
UuidParse(x) == x[2]

OptIso(v) == IF v = None THEN None ELSE Some(IsoFormat(v[1]))

\* The columns _export_data selects from memory_entries, as row_to_dict
\* renders them.
MemoryToDict(r) ==
    [id |-> UuidStr(r.id), user_id |-> r.user_id,
     session_id |-> r.session_id, memory_type |-> r.memory_type,
     scope |-> r.scope,
     content_encrypted |->
         [__bytes__ |-> TRUE, data |-> B64Encode(r.content_encrypted)],
     content_hash |-> r.content_hash, tags |-> r.tags,
     relevance_score |-> r.relevance_score,
     access_count |-> r.access_count,
     created_at |-> IsoFormat(r.created_at),
     updated_at |-> IsoFormat(r.updated_at),
     expires_at |-> OptIso(r.expires_at)]

\* SELECT * FROM memory_associations
AssociationToDict(r) ==
    [id |-> UuidStr(r.id),
     source_memory_id |-> UuidStr(r.source_memory_id),
     target_memory_id |-> UuidStr(r.target_memory_id),
     association_type |-> r.association_type, strength |-> r.strength,
     created_at |-> IsoFormat(r.created_at)]

\* SELECT id, user_id, session_id, message_count, started_at
\* FROM context_sessions
SessionToDict(r) ==
    [id |-> UuidStr(r.id), user_id |-> r.user_id,
     session_id |-> r.session_id, message_count |-> r.message_count,
     started_at |-> IsoFormat(r.started_at)]

\* The memory rows _export_data reads: one user's, or all.
ExportedMemories(mem, user_id) ==
    IF user_id # None THEN {r \in mem : r.user_id = user_id[1]} ELSE mem

\* The export documents _export_data may build: each collection in any order
\* the database returns its rows.
ExportDocs(mem, assocs, sessions, user_id, t) ==
    {[metadata |-> [version |-> "1.0", created_at |-> IsoFormat(t),
                    scope |-> IF user_id # None THEN "user" ELSE "full",
                    user_id |-> user_id],
      memory_entries |-> [i \in 1..Len(m) |-> MemoryToDict(m[i])],
      memory_associations |-> [i \in 1..Len(a) |-> AssociationToDict(a[i])],
      context_sessions |-> [i \in 1..Len(c) |-> SessionToDict(c[i])]] :
        m \in Orders(ExportedMemories(mem, user_id)),
        a \in Orders(assocs), c \in Orders(sessions)}

\* json.dumps(...).encode, then gzip.compress; `damage` is what happened to
\* the stored bytes afterwards.
Compress(doc) == [gzip |-> <<"json", doc>>, damage |-> "none"]

\* gzip.decompress fails on a damaged deflate stream or trailer; damage to a
\* header field it does not check leaves the payload readable.
decompress_ok(compressed) == compressed.damage # "body"

Decompress(compressed) == compressed.gzip[2]

\* user_id[:8]
Prefix8(user_id) == SubSeq(user_id, 1, Min(8, Len(user_id)))

\* BACKUP_DIR / backup_type / backup_{type}{scope_tag}_{timestamp}.json.gz
BackupPath(backup_type, user_id, started_at) ==
    <<backup_type,
      IF user_id # None THEN <<"user", Prefix8(user_id[1])>> ELSE <<"full">>,
      started_at>>

\* The placeholder run_backup inserts for backup_path and checksum.
Pending == <<"pending">>

S3Key(backup_type, path) == <<"analogic-memory-backups/", backup_type, path>>

\* Path.write_bytes; `exported` remembers the rows the artifact was exported
\* from (a history field, no part of the file).
WriteFile(fs, path, data, t, exported) ==
    [q \in DOMAIN fs \cup {path} |->
        IF q = path THEN [data |-> data, mtime |-> t, exported |-> exported]
        ELSE fs[q]]

\* The rows one export reads.
ExportedRows(mem, assocs, sessions, user_id) ==
    [memory_entries |-> ExportedMemories(mem, user_id),
     memory_associations |-> assocs, context_sessions |-> sessions]

RemoveFiles(fs, gone) == [q \in DOMAIN fs \ gone |-> fs[q]]

\* The size of an artifact, counted in exported records.
SizeBytes(compressed) ==
    LET doc == compressed.gzip[2]
    IN 1 + Len(doc.memory_entries) + Len(doc.memory_associations)
         + Len(doc.context_sessions)


\* The catalog row run_backup inserts before the try block.
RunningRow(id, backup_type, t) ==
    [id |-> id, backup_type |-> backup_type, backup_path |-> Pending,
     checksum |-> Pending, size_bytes |-> None, records_count |-> None,
     started_at |-> t, completed_at |-> None, status |-> "running",
     error_message |-> None]

\* UPDATE backup_catalog SET backup_path, checksum, size_bytes,
\*        records_count, completed_at, status = 'success' WHERE id = $6
MarkSuccess(catalog, id, backup_path, checksum, size_bytes, records_count, t) ==
    {IF r.id = id
        THEN [r EXCEPT !.backup_path = backup_path, !.checksum = checksum,
                       !.size_bytes = Some(size_bytes),
                       !.records_count = Some(records_count),
                       !.completed_at = Some(t), !.status = "success"]
        ELSE r : r \in catalog}

\* An except block that re-raises without touching the catalog.
MarkFailedNowhere(catalog, id, error) == catalog

\* UPDATE backup_catalog SET status = 'failed', error_message = $1
\* WHERE id = $2
MarkFailed(catalog, id, error) ==
    {IF r.id = id
        THEN [r EXCEPT !.status = "failed", !.error_message = Some(error)]
        ELSE r : r \in catalog}

\* if backup_type in ("secondary", "archive") and S3_AVAILABLE
Uploads(backup_type) ==
    backup_type \in {"secondary", "archive"} /\ S3_AVAILABLE

\* The while loop of _rotate_local_backups: as long as more than
\* MAX_LOCAL_BACKUPS of the files `inDir` are left, the first of the list
\* sorted by modification time is unlinked (files of equal mtime come in the
\* order glob happened to yield them).
RECURSIVE RotateLoop(_, _, _)
RotateLoop(fs, inDir, gone) ==
    LET left == inDir \ gone
        oldest == {q \in left : \A k \in left : fs[q].mtime <= fs[k].mtime}
    IN IF Cardinality(left) <= MAX_LOCAL_BACKUPS THEN {gone}
       ELSE UNION {RotateLoop(fs, inDir, gone \cup {o}) : o \in oldest}

\* A rotation that lists every tier's directory.
RotateVictimsAnyTier(fs, backup_type) == RotateLoop(fs, DOMAIN fs, {})

\* _rotate_local_backups: the sets of files the loop may delete from the
\* directory of the tier, oldest modification time first, until
\* MAX_LOCAL_BACKUPS remain.
RotateVictims(fs, backup_type) ==
    RotateLoop(fs, {q \in DOMAIN fs : q[1] = backup_type}, {})

\* What run_backup returns when it does not raise.
BackupSummary(backup_id, backup_type, user_id, written) ==
    [op |-> "run_backup", status |-> "success", backup_id |-> backup_id,
     backup_type |-> backup_type, user_id |-> user_id,
     records_count |-> written.records_count,
     size_bytes |-> written.size_bytes, checksum |-> written.checksum,
     path |-> written.backup_path]

\* What the try block computes from one export document.
Written(doc, backup_type, user_id, started_at) ==
    [backup_path |-> BackupPath(backup_type, user_id, started_at),
     data |-> Compress(doc),
     checksum |-> checksum_bytes(Compress(doc)),
     size_bytes |-> SizeBytes(Compress(doc)),
     records_count |-> Len(doc.memory_entries)]

\* The places where the try block of run_backup may raise.
FailurePoints == {"export", "write", "upload", "rotate"}

\* The body of run_backup run without interleaving: `outcome` is "ok" or the
\* place where the try block raises.
BackupRun(backup_type, user_id, outcome) ==
    /\ run.pc = "idle"
    /\ outcome \in FailurePoints \cup {"ok"}
    /\ outcome = "upload" => Uploads(backup_type)
    /\ \E doc \in ExportDocs(memory_entries, memory_associations,
                             context_sessions, user_id, now) :
         LET id == next_id.backup
             w == Written(doc, backup_type, user_id, now)
             inserted == backup_catalog \cup {RunningRow(id, backup_type, now)}
             succeeded == MarkSuccess(inserted, id, w.backup_path, w.checksum,
                                      w.size_bytes, w.records_count, now)
             written == WriteFile(files, w.backup_path, w.data, now,
                                  ExportedRows(memory_entries,
                                      memory_associations,
                                      context_sessions, user_id))
         IN /\ \E V \in RotateVictims(written, backup_type) :
                  files' = CASE outcome \in {"export", "write"} -> files
                             [] outcome = "ok" -> RemoveFiles(written, V)
                             [] OTHER -> written
            /\ s3_objects' =
                  IF outcome \in {"ok", "rotate"} /\ Uploads(backup_type)
                  THEN s3_objects \cup {S3Key(backup_type, w.backup_path)}
                  ELSE s3_objects
            /\ backup_catalog' =
                  CASE outcome = "ok" -> succeeded
                    [] outcome = "rotate" -> MarkFailed(succeeded, id, outcome)
                    [] OTHER -> MarkFailed(inserted, id, outcome)
            /\ last' = IF outcome = "ok"
                       THEN BackupSummary(id, backup_type, user_id, w)
                       ELSE [op |-> "run_backup", status |-> "error",
                             backup_id |-> id, error |-> outcome]
    /\ next_id' = [next_id EXCEPT !.backup = @ + 1]
    /\ UNCHANGED <<memory_entries, peak, memory_associations, context_sessions,
                   run, pending>>

\* run_backup called on its own, by a request or an operator.
run_backup(backup_type, user_id, outcome) ==
    /\ next_id.backup <= MaxBackups
    /\ BackupRun(backup_type, user_id, outcome)
    /\ UNCHANGED <<now, scheduler>>

\* run_backup step by step ------------------------------------------------
\* Step 1: the catalog row is inserted in status running.
BackupBegin(backup_type, user_id) ==
    /\ run.pc = "idle"
    /\ next_id.backup <= MaxBackups
    /\ backup_catalog' = backup_catalog
                            \cup {RunningRow(next_id.backup, backup_type, now)}
    /\ next_id' = [next_id EXCEPT !.backup = @ + 1]
    /\ run' = [pc |-> "export", backup_id |-> next_id.backup,
               backup_type |-> backup_type, user_id |-> user_id,
               started_at |-> now]
    /\ UNCHANGED <<memory_entries, peak, memory_associations, context_sessions,
                   files, s3_objects, now, scheduler, pending, last>>

\* Step 2: export, compress, checksum, write the local file and upload it for
\* the remote tiers; any of them may raise.
BackupWrite ==
    /\ run.pc = "export"
    /\ \/ /\ run' = [pc |-> "except", backup_id |-> run.backup_id,
                     error |-> "export"]
          /\ UNCHANGED <<files, s3_objects>>
       \/ /\ run' = [pc |-> "except", backup_id |-> run.backup_id,
                     error |-> "write"]
          /\ UNCHANGED <<files, s3_objects>>
       \/ \E doc \in ExportDocs(memory_entries, memory_associations,
                                context_sessions, run.user_id, now) :
            LET w == Written(doc, run.backup_type, run.user_id,
                             run.started_at)
            IN /\ files' = WriteFile(files, w.backup_path, w.data, now,
                                     ExportedRows(memory_entries,
                                         memory_associations,
                                         context_sessions, run.user_id))
               /\ \/ /\ Uploads(run.backup_type)
                     /\ run' = [pc |-> "except", backup_id |-> run.backup_id,
                                error |-> "upload"]
                     /\ UNCHANGED s3_objects
                  \/ /\ s3_objects' =
                           IF Uploads(run.backup_type)
                           THEN s3_objects
                                  \cup {S3Key(run.backup_type, w.backup_path)}
                           ELSE s3_objects
                     /\ run' = [pc |-> "finalize",
                                backup_id |-> run.backup_id,
                                backup_type |-> run.backup_type,
                                user_id |-> run.user_id, written |-> w]
    /\ UNCHANGED <<memory_entries, peak, memory_associations, context_sessions,
                   backup_catalog, now, scheduler, next_id, pending, last>>

\* Step 3: the row is finalized to success.
BackupFinalize ==
    /\ run.pc = "finalize"
    /\ backup_catalog' =
          MarkSuccess(backup_catalog, run.backup_id, run.written.backup_path,
                      run.written.checksum, run.written.size_bytes,
                      run.written.records_count, now)
    /\ run' = [run EXCEPT !.pc = "rotate"]
    /\ UNCHANGED <<memory_entries, peak, memory_associations, context_sessions,
                   files, s3_objects, now, scheduler, next_id, pending, last>>

\* Step 4: rotation, still inside the try block; then the summary is
\* returned.
BackupRotate ==
    /\ run.pc = "rotate"
    /\ \/ /\ \E V \in RotateVictims(files, run.backup_type) :
                files' = RemoveFiles(files, V)
          /\ run' = Idle
          /\ last' = BackupSummary(run.backup_id, run.backup_type,
                                   run.user_id, run.written)
       \/ /\ run' = [pc |-> "except", backup_id |-> run.backup_id,
                     error |-> "rotate"]
          /\ UNCHANGED <<files, last>>
    /\ UNCHANGED <<memory_entries, peak, memory_associations, context_sessions,
                   backup_catalog, s3_objects, now, scheduler, next_id, pending>>

\* The except block: the row is marked failed and the error is raised to the
\* caller.
BackupExcept ==
    /\ run.pc = "except"
    /\ backup_catalog' = MarkFailed(backup_catalog, run.backup_id, run.error)
    /\ run' = Idle
    /\ last' = [op |-> "run_backup", status |-> "error",
                backup_id |-> run.backup_id, error |-> run.error]
    /\ UNCHANGED <<memory_entries, peak, memory_associations, context_sessions,
                   files, s3_objects, now, scheduler, next_id, pending>>

\* The except block when its own UPDATE raises (the database is gone): the
\* row is left as it was and the database error reaches the caller.
BackupExceptUpdateFails ==
    /\ run.pc = "except"
    /\ run' = Idle
    /\ last' = [op |-> "run_backup", status |-> "error",
                backup_id |-> run.backup_id, error |-> "PostgresError"]
    /\ UNCHANGED <<memory_entries, peak, memory_associations, context_sessions,
                   backup_catalog, files, s3_objects, now, scheduler, next_id,
                   pending>>

\* lifespan's backup_task.cancel() while run_backup is suspended at one of
\* its awaits: CancelledError is no Exception, the except block is passed
\* over and the task ends.
BackupCancel ==
    /\ run.pc \in {"export", "finalize", "rotate"}
    /\ run' = Idle
    /\ last' = [op |-> "run_backup", status |-> "error",
                backup_id |-> run.backup_id, error |-> "CancelledError"]
    /\ UNCHANGED <<memory_entries, peak, memory_associations, context_sessions,
                   backup_catalog, files, s3_objects, now, scheduler, next_id,
                   pending>>

\* A stored artifact is damaged on disk (one byte changes).
DamageFile(path, kind) ==
    /\ path \in DOMAIN files
    /\ files[path].data.damage = "none"
    /\ files' = [files EXCEPT ![path].data.damage = kind]
    /\ UNCHANGED <<memory_entries, peak, memory_associations, context_sessions,
                   backup_catalog, s3_objects, now, scheduler, next_id, run,
                   pending, last>>

\* The row _import_memories inserts for one exported entry (updated_at and
\* is_active are not among the inserted columns and take their defaults).
ImportedMemoryRow(entry, t) ==
    [id |-> UuidParse(entry.id), user_id |-> entry.user_id,
     session_id |-> entry.session_id, memory_type |-> entry.memory_type,
     scope |-> entry.scope,
     content_encrypted |-> B64Decode(entry.content_encrypted.data),
     content_hash |-> entry.content_hash, tags |-> entry.tags,
     relevance_score |-> entry.relevance_score,
     access_count |-> entry.access_count,
     created_at |-> FromIsoFormat(entry.created_at),
     updated_at |-> t,
     expires_at |-> IF entry.expires_at # None
                    THEN Some(FromIsoFormat(entry.expires_at[1])) ELSE None,
     is_active |-> DEFAULT_IS_ACTIVE]

\* An import whose INSERT is checked against the primary key only
ImportMemoryOutcomeIdOnly(mem, row) ==
    IF memory_pk_conflict(mem, row) THEN "skip" ELSE "insert"

\* One INSERT ... ON CONFLICT (id) DO NOTHING of _import_memories:
\* "skip" on an id conflict, "error" when another constraint rejects the row.
ImportMemoryOutcome(mem, row) ==
    IF memory_pk_conflict(mem, row) THEN "skip"
    ELSE IF memory_hash_conflict(mem, row) THEN "error"
    ELSE "insert"

\* ON CONFLICT (id) DO UPDATE instead: the imported row replaces the
\* existing one.
MemoryAfterImportOverwriting(mem, row, outcome) ==
    IF outcome = "insert" THEN mem \cup {row}
    ELSE IF outcome = "skip" THEN {r \in mem : r.id # row.id} \cup {row}
    ELSE mem

\* The table after that INSERT: DO NOTHING keeps the existing row.
MemoryAfterImport(mem, row, outcome) ==
    IF outcome = "insert" THEN mem \cup {row} ELSE mem

\* count += 1 after every INSERT statement that did not raise.
CountAfterImport(count, outcome) ==
    IF outcome = "error" THEN count ELSE count + 1

\* The loop of _import_memories.
RECURSIVE ImportMemories(_, _, _, _)
ImportMemories(entries, mem, count, t) ==
    IF entries = <<>> THEN [mem |-> mem, count |-> count]
    ELSE LET entry == Head(entries)
         IN IF ~entry.content_encrypted.__bytes__
            THEN ImportMemories(Tail(entries), mem, count, t)
            ELSE LET row == ImportedMemoryRow(entry, t)
                     outcome == ImportMemoryOutcome(mem, row)
                 IN ImportMemories(Tail(entries),
                                   MemoryAfterImport(mem, row, outcome),
                                   CountAfterImport(count, outcome), t)

\* The row _import_sessions inserts for one exported session.
ImportedSessionRow(session, t) ==
    [id |-> UuidParse(session.id), user_id |-> session.user_id,
     session_id |-> session.session_id,
     context_data_encrypted |-> None,
     message_count |-> session.message_count,
     started_at |-> FromIsoFormat(session.started_at),
     last_active_at |-> t, is_active |-> TRUE]

\* One INSERT ... ON CONFLICT (session_id) DO NOTHING of _import_sessions.
ImportSessionOutcome(sessions, row) ==
    IF session_key_conflict(sessions, row.session_id) THEN "skip"
    ELSE IF \E r \in sessions : r.id = row.id THEN "error"
    ELSE "insert"

SessionsAfterImport(sessions, row, outcome) ==
    IF outcome = "insert" THEN sessions \cup {row} ELSE sessions

RECURSIVE ImportSessions(_, _, _, _)
ImportSessions(exported, sessions, count, t) ==
    IF exported = <<>> THEN [sessions |-> sessions, count |-> count]
    ELSE LET row == ImportedSessionRow(Head(exported), t)
             outcome == ImportSessionOutcome(sessions, row)
         IN ImportSessions(Tail(exported),
                           SessionsAfterImport(sessions, row, outcome),
                           CountAfterImport(count, outcome), t)

\* A lookup that takes the path of the row whatever its status.
RestoreLookupAnyStatus(backup_id, backup_path) ==
    IF backup_id # None
    THEN LET rows == {r \in backup_catalog : r.id = backup_id[1]}
         IN IF rows = {}
            THEN [ok |-> FALSE, error |-> "ValueError"]
            ELSE LET row == CHOOSE r \in rows : TRUE
                 IN [ok |-> TRUE, path |-> row.backup_path,
                     expected_checksum |-> Some(row.checksum)]
    ELSE IF backup_path # None
    THEN [ok |-> TRUE, path |-> backup_path[1], expected_checksum |-> None]
    ELSE [ok |-> FALSE, error |-> "ValueError"]

\* restore_from_backup: what the lookup resolves to.
RestoreLookup(backup_id, backup_path) ==
    IF backup_id # None
    THEN LET rows == {r \in backup_catalog : r.id = backup_id[1]}
         IN IF rows = {} \/ \E r \in rows : r.status # "success"
            THEN [ok |-> FALSE, error |-> "ValueError"]
            ELSE LET row == CHOOSE r \in rows : TRUE
                 IN [ok |-> TRUE, path |-> row.backup_path,
                     expected_checksum |-> Some(row.checksum)]
    ELSE IF backup_path # None
    THEN [ok |-> TRUE, path |-> backup_path[1], expected_checksum |-> None]
    ELSE [ok |-> FALSE, error |-> "ValueError"]

\* The checks without the comparison of checksums
RestoreCheckUnverified(look) ==
    IF ~look.ok THEN look.error
    ELSE IF look.path \notin DOMAIN files THEN "FileNotFoundError"
    ELSE IF ~decompress_ok(files[look.path].data) THEN "BadGzipFile"
    ELSE "ok"

\* restore_from_backup: the checks between the lookup and the import.
RestoreCheck(look) ==
    IF ~look.ok THEN look.error
    ELSE IF look.path \notin DOMAIN files THEN "FileNotFoundError"
    ELSE IF /\ look.expected_checksum # None
            /\ checksum_bytes(files[look.path].data)
                   # look.expected_checksum[1]
         THEN "ChecksumMismatch"
    ELSE IF ~decompress_ok(files[look.path].data) THEN "BadGzipFile"
    ELSE "ok"

restore_from_backup(backup_id, backup_path) ==
    LET look == RestoreLookup(backup_id, backup_path)
        check == RestoreCheck(look)
    IN
    /\ IF check # "ok"
       THEN /\ last' = [op |-> "restore_from_backup", status |-> "error",
                        error |-> check, backup_id |-> backup_id]
            /\ UNCHANGED <<memory_entries, peak, context_sessions>>
       ELSE LET export == Decompress(files[look.path].data)
                m == ImportMemories(export.memory_entries, memory_entries,
                                    0, now)
                c == ImportSessions(export.context_sessions,
                                    context_sessions, 0, now)
            IN /\ memory_entries' = m.mem
               /\ peak' = PeakAfter(peak, memory_entries')
               /\ context_sessions' = c.sessions
               /\ last' = [op |-> "restore_from_backup",
                           status |-> "success",
                           restored_memories |-> m.count,
                           restored_sessions |-> c.count,
                           backup_id |-> backup_id, path |-> look.path]
    /\ UNCHANGED <<memory_associations, backup_catalog, files, s3_objects,
                   now, scheduler, next_id, run, pending>>


\* A verification that looks only at whether the file is there.
VerifyValidIfPresent(actual, expected) == TRUE

\* verify_backup: valid = actual == row["checksum"]
VerifyValid(actual, expected) == actual = expected

\* verify_backup: the catalog row is looked up, the file at its path is read
\* and its checksum recomputed; nothing is written.
verify_backup(backup_id) ==
    LET rows == {r \in backup_catalog : r.id = backup_id}
    IN
    /\ IF rows = {}
       THEN last' = [op |-> "verify_backup", backup_id |-> backup_id,
                     valid |-> FALSE, error |-> Some("not found"),
                     file_exists |-> FALSE]
       ELSE LET row == CHOOSE r \in rows : TRUE
            IN IF row.backup_path \notin DOMAIN files
               THEN last' = [op |-> "verify_backup",
                             backup_id |-> backup_id, valid |-> FALSE,
                             error |-> Some("file missing"),
                             file_exists |-> FALSE]
               ELSE LET data == files[row.backup_path].data
                        actual == checksum_bytes(data)
                    IN last' = [op |-> "verify_backup",
                                backup_id |-> backup_id,
                                valid |-> VerifyValid(actual, row.checksum),
                                error |-> None, file_exists |-> TRUE]
    /\ UNCHANGED <<memory_entries, peak, memory_associations, context_sessions,
                   backup_catalog, files, s3_objects, now, scheduler, next_id,
                   run, pending>>


\* compute_relevance_score called on its own.
ComputeScore(query_keywords, memory_content, access_count, recency_hours) ==
    /\ last' = [op |-> "compute_relevance_score",
                query_keywords |-> query_keywords,
                memory_content |-> memory_content,
                access_count |-> access_count,
                recency_hours |-> recency_hours,
                score |-> compute_relevance_score(query_keywords,
                              memory_content, access_count, recency_hours)]
    /\ UNCHANGED <<memory_entries, peak, memory_associations, context_sessions,
                   backup_catalog, files, s3_objects, now, scheduler, next_id,
                   run, pending>>

\* The ranking of recall_memory (score, sort, cut) applied to the rows
\* `fetched` at the hour t.
RankFetched(fetched, user_id, query, limit, t) ==
    /\ last' = [op |-> "rank", fetched |-> fetched, query |-> query,
                results |-> RecallResults(fetched, user_id,
                                          Split(Lower(query)), limit, t)]
    /\ UNCHANGED <<memory_entries, peak, memory_associations, context_sessions,
                   backup_catalog, files, s3_objects, now, scheduler, next_id,
                   run, pending>>

\* recall_memory without its UPDATE, on a table `mem` given by the caller:
\* the WHERE clause, the newest limit * 3 rows, then score, sort and cut.
RecallAmong(mem, user_id, query, limit, t) ==
    LET eligible == RecallCandidates(mem, user_id, None, None, None, <<>>, t)
    IN
    /\ \E fetched \in RecallFetches(eligible, limit * OVERFETCH_FACTOR) :
          last' = [op |-> "recall_memory", user_id |-> user_id,
                   query |-> query, limit |-> limit, at |-> t,
                   eligible |-> eligible,
                   results |-> RecallResults(fetched, user_id,
                                             Split(Lower(query)), limit, t)]
    /\ UNCHANGED <<memory_entries, peak, memory_associations, context_sessions,
                   backup_catalog, files, s3_objects, now, scheduler, next_id,
                   run, pending>>

\* encrypt_with_user_key for one user followed by decrypt_with_user_key for
\* a reader: the plaintext, or InvalidTag when the tag does not verify.
EncryptThenDecrypt(plaintext, user_id, reader_id) ==
    LET encrypted_data == encrypt_with_user_key(plaintext, user_id)
    IN
    /\ last' = [op |-> "decrypt_with_user_key", plaintext |-> plaintext,
                user_id |-> user_id, reader_id |-> reader_id,
                result |-> IF decrypt_ok(encrypted_data, reader_id)
                           THEN Some(decrypt_with_user_key(encrypted_data,
                                                           reader_id))
                           ELSE None,
                error |-> IF decrypt_ok(encrypted_data, reader_id)
                          THEN None ELSE Some("InvalidTag")]
    /\ UNCHANGED <<memory_entries, peak, memory_associations, context_sessions,
                   backup_catalog, files, s3_objects, now, scheduler, next_id,
                   run, pending>>


\* store_memory step by step ------------------------------------------------
\* Step 1: sanitize, compute the expiry, run the duplicate SELECT.
StoreSelect(w, user_raw, content_raw, memory_type, scope, session_id, tags, ttl_hours) ==
    /\ pending[w].pc = "idle"
    /\ IF ~sanitize_ok(content_raw, MAX_CONTENT_LENGTH)
          \/ ~sanitize_ok(user_raw, USER_ID_MAX_LENGTH)
       THEN pending' = [pending EXCEPT ![w] =
                [pc |-> "done", status |-> "error",
                 error |-> Some("ValueError"), user_id |-> user_raw,
                 content |-> content_raw]]
       ELSE LET content == sanitize_input(content_raw)
                user_id == sanitize_input(user_raw)
                existing == ExistingIds(memory_entries, user_id,
                                        hash_content(content))
            IN IF existing # {}
               THEN \E id \in existing :
                      pending' = [pending EXCEPT ![w] =
                          [pc |-> "done", status |-> "duplicate",
                           error |-> None, user_id |-> user_id,
                           content |-> content]]
               ELSE pending' = [pending EXCEPT ![w] =
                        [pc |-> "insert", user_id |-> user_id,
                         content |-> content, memory_type |-> memory_type,
                         scope |-> scope, session_id |-> session_id,
                         tags |-> tags,
                         expires_at |-> ExpiresAt(scope, ttl_hours, now)]]
    /\ UNCHANGED <<memory_entries, peak, memory_associations, context_sessions,
                   backup_catalog, files, s3_objects, now, scheduler, next_id,
                   run, last>>

\* Step 2: the INSERT and the auto-link pass.
StoreWrite(w) ==
    /\ pending[w].pc = "insert"
    /\ StoreInsert(pending[w].user_id, pending[w].content,
                   pending[w].memory_type, pending[w].scope,
                   pending[w].session_id, pending[w].tags,
                   pending[w].expires_at)
    /\ pending' = [pending EXCEPT ![w] =
            [pc |-> "done", status |-> last'.status,
             error |-> IF last'.status = "error" THEN Some(last'.error)
                       ELSE None,
             user_id |-> pending[w].user_id, content |-> pending[w].content]]
    /\ UNCHANGED <<context_sessions, backup_catalog, files, s3_objects, now, scheduler,
                   run>>

\* The association graph --------------------------------------------------
\* create_association: unknown types are rejected, the strength is clamped,
\* the row is upserted.
create_association(source_id, target_id, association_type, strength) ==
    /\ IF association_type \notin ASSOCIATION_TYPES
       THEN /\ last' = [op |-> "create_association", status |-> "error",
                        error |-> "ValueError"]
            /\ UNCHANGED <<memory_associations, next_id>>
       ELSE LET up == UpsertAssociation(memory_associations, next_id.assoc,
                          source_id, target_id, association_type,
                          ClampStrength(strength), now)
            IN /\ up.nid <= MaxAssocs + 1
               /\ memory_associations' = up.assocs
               /\ next_id' = [next_id EXCEPT !.assoc = up.nid]
               /\ last' = [op |-> "create_association", status |-> "ok",
                           source_id |-> source_id, target_id |-> target_id,
                           association_type |-> association_type,
                           requested |-> strength,
                           previous |->
                               {r.strength : r \in
                                   {x \in memory_associations :
                                       SameTriple(x, source_id, target_id,
                                                  association_type)}}]
    /\ UNCHANGED <<memory_entries, peak, context_sessions, backup_catalog, files,
                   s3_objects, now, scheduler, run, pending>>

\* strengthen_association: UPDATE ... SET strength = LEAST(1.0, strength + $4)
\* on the rows of the triple; nothing is returned when there is none.
strengthen_association(source_id, target_id, association_type, delta) ==
    LET hit == {r \in memory_associations :
                   SameTriple(r, source_id, target_id, association_type)}
    IN /\ \A r \in hit : StrengthenedValue(r.strength, delta) >= StrengthFloor
       /\ memory_associations' =
              {IF r \in hit
                  THEN [r EXCEPT !.strength = StrengthenedValue(@, delta)]
                  ELSE r : r \in memory_associations}
       /\ last' = [op |-> "strengthen_association",
                   source_id |-> source_id, target_id |-> target_id,
                   association_type |-> association_type, delta |-> delta,
                   found |-> (hit # {})]
       /\ UNCHANGED <<memory_entries, peak, context_sessions, backup_catalog, files,
                      s3_objects, now, scheduler, next_id, run, pending>>

\* decay_weak_associations: DELETE ... WHERE strength < $1
decay_weak_associations(threshold) ==
    LET weak == {r \in memory_associations : r.strength < threshold}
    IN /\ memory_associations' = memory_associations \ weak
       /\ last' = [op |-> "decay_weak_associations",
                   count |-> Cardinality(weak)]
       /\ UNCHANGED <<memory_entries, peak, context_sessions, backup_catalog, files,
                      s3_objects, now, scheduler, next_id, run, pending>>

\* ---------------------------------------- backup_system.schedule_backups
SECONDARY_EVERY == 6        \* if hourly_count % 6 == 0
ARCHIVE_EVERY == 24         \* if hourly_count % 24 == 0
SLEEP_HOURS == 1            \* await asyncio.sleep(3600)

\* Of the runs the scheduler has made, those that raised.
RaisedRuns == {r \in backup_catalog : r.status = "failed"}

\* How a scheduled run may end.
ScheduledOutcomes ==
    IF Cardinality(RaisedRuns) < MaxFailures
    THEN FailurePoints \cup {"ok"}
    ELSE {"ok"}

\* A scheduler whose loop has no except clause: the raise ends the coroutine.
AfterRaiseEndsLoop(s, backup_type) ==
    [s EXCEPT !.pc = "stopped", !.started = @ \cup {backup_type},
              !.failed = TRUE]

\* run_backup raised inside the try block: `except Exception` logs it and
\* the iteration goes on at the sleep, hourly_count left as it was.
AfterRaise(s, backup_type) ==
    [s EXCEPT !.pc = "sleep", !.started = @ \cup {backup_type},
              !.failed = TRUE]

\* What a scheduler step leaves alone when it makes no backup run.
NoBackupRun ==
    UNCHANGED <<memory_entries, peak, memory_associations, context_sessions,
                backup_catalog, files, s3_objects, next_id, run, pending,
                last>>

\* await system.run_backup("primary"); hourly_count += 1
SchedulePrimary(outcome) ==
    /\ scheduler.pc = "primary"
    /\ outcome \in ScheduledOutcomes
    /\ BackupRun("primary", None, outcome)
    /\ scheduler' =
          IF outcome = "ok"
          THEN [scheduler EXCEPT !.pc = "secondary",
                                 !.hourly_count = @ + 1,
                                 !.started = @ \cup {"primary"}]
          ELSE AfterRaise(scheduler, "primary")
    /\ UNCHANGED now

\* if hourly_count % 6 == 0: await system.run_backup("secondary")
ScheduleSecondary(outcome) ==
    /\ scheduler.pc = "secondary"
    /\ IF scheduler.hourly_count % SECONDARY_EVERY = 0
       THEN /\ outcome \in ScheduledOutcomes
            /\ BackupRun("secondary", None, outcome)
            /\ scheduler' =
                  IF outcome = "ok"
                  THEN [scheduler EXCEPT !.pc = "archive",
                                         !.started = @ \cup {"secondary"}]
                  ELSE AfterRaise(scheduler, "secondary")
       ELSE /\ outcome = "ok"
            /\ scheduler' = [scheduler EXCEPT !.pc = "archive"]
            /\ NoBackupRun
    /\ UNCHANGED now

\* if hourly_count % 24 == 0: await system.run_backup("archive");
\*                            hourly_count = 0
ScheduleArchive(outcome) ==
    /\ scheduler.pc = "archive"
    /\ IF scheduler.hourly_count % ARCHIVE_EVERY = 0
       THEN /\ outcome \in ScheduledOutcomes
            /\ BackupRun("archive", None, outcome)
            /\ scheduler' =
                  IF outcome = "ok"
                  THEN [scheduler EXCEPT !.pc = "sleep",
                                         !.hourly_count = 0,
                                         !.started = @ \cup {"archive"}]
                  ELSE AfterRaise(scheduler, "archive")
       ELSE /\ outcome = "ok"
            /\ scheduler' = [scheduler EXCEPT !.pc = "sleep"]
            /\ NoBackupRun
    /\ UNCHANGED now

\* await asyncio.sleep(3600), then the next iteration of `while True`.
ScheduleSleep ==
    /\ scheduler.pc = "sleep"
    /\ scheduler.tick < MaxTicks
    /\ now' = now + SLEEP_HOURS
    /\ scheduler' = [scheduler EXCEPT !.pc = "primary", !.tick = @ + 1,
                                      !.started = {}, !.failed = FALSE]
    /\ NoBackupRun

\* ------------------------------------------------------------ specifications
MemoryIds == 1..MaxMemories
BackupIds == 1..MaxBackups
SessionKeys == {"s1"}
Contexts == {[messages |-> <<"hi">>]}
DamageKinds == {"header", "body"}
FullOrUser == {None} \cup {Some(u) : u \in Users}
Strengths == {0 - 500, 300, 900, 1500}
Deltas == {5000, 0 - 500}
Thresholds == {50}
GraphTypes == {"supports", "mentions"}

\* The life cycle of memory entries: sequential store, recall, delete and
\* purge requests, full backups and restores by id, and the clock.
Next ==
    \/ Tick(2)
    \/ \E u \in RawUsers, c \in RawContents :
          store_memory(u, c, "general", "short_term", None, <<>>, Some(1))
    \/ recall_memory(<<"u">>, <<"a">>, None, None, None, <<>>, 1)
    \/ \E id \in MemoryIds, u \in Users : delete_memory(id, u)
    \/ purge_expired_memories
    \/ \E o \in {"ok", "export"} : run_backup("primary", None, o)
    \/ \E b \in BackupIds : restore_from_backup(Some(b), None)

Spec == Init /\ [][Next]_vars

\* Restores into the database the backup was taken from, after stores,
\* recalls and session updates.
NextRestore ==
    \/ \E c \in RawContents :
          store_memory(<<"u">>, c, "general", "long_term", None, <<>>, None)
    \/ recall_memory(<<"u">>, <<"a">>, None, None, None, <<>>, 1)
    \/ \E u \in Users, k \in SessionKeys : create_session(u, k)
    \/ \E k \in SessionKeys, cx \in Contexts : update_session_context(k, cx)
    \/ run_backup("primary", None, "ok")
    \/ \E b \in BackupIds : restore_from_backup(Some(b), None)
    \/ \E q \in DOMAIN files : restore_from_backup(None, Some(q))

SpecRestore == Init /\ [][NextRestore]_vars

\* Restores of artifacts that were damaged on disk, after the purge removed
\* rows they hold.
NextIntegrity ==
    \/ Tick(2)
    \/ \E c \in RawContents :
          store_memory(<<"u">>, c, "general", "short_term", None, <<>>,
                       Some(1))
    \/ purge_expired_memories
    \/ create_session(<<"u">>, "s1")
    \/ run_backup("primary", None, "ok")
    \/ \E b \in BackupIds : restore_from_backup(Some(b), None)
    \/ \E q \in DOMAIN files, k \in DamageKinds : DamageFile(q, k)

SpecIntegrity == Init /\ [][NextIntegrity]_vars

\* One run_backup at a time, step by step, with every place it may raise.
NextBackup ==
    \/ Tick(1)
    \/ \E c \in RawContents :
          store_memory(<<"u">>, c, "general", "long_term", None, <<>>, None)
    \/ \E bt \in BackupTypes, u \in FullOrUser : BackupBegin(bt, u)
    \/ BackupWrite
    \/ BackupFinalize
    \/ BackupRotate
    \/ BackupExcept

SpecBackup == Init /\ [][NextBackup]_vars

\* Two store_memory calls whose database steps interleave.
NextConcurrent ==
    \/ \E w \in Workers, u \in RawUsers, c \in RawContents, sc \in Scopes,
          tg \in TagLists :
          StoreSelect(w, u, c, "general", sc, None, tg, None)
    \/ \E w \in Workers : StoreWrite(w)

SpecConcurrent == Init /\ [][NextConcurrent]_vars

\* The association graph over stored entries.
NextGraph ==
    \/ \E c \in RawContents :
          store_memory(<<"u">>, c, "general", "long_term", None, <<"x">>,
                       None)
    \/ \E a \in MemoryIds, b \in MemoryIds, ty \in GraphTypes,
          st \in Strengths :
          /\ {a, b} \subseteq {r.id : r \in memory_entries}
          /\ create_association(a, b, ty, st)
    \/ \E a \in MemoryIds, b \in MemoryIds, ty \in GraphTypes, d \in Deltas :
          strengthen_association(a, b, ty, d)
    \/ \E th \in Thresholds : decay_weak_associations(th)

SpecGraph == Init /\ [][NextGraph]_vars

\* Recall against the clock: entries of two users, both scopes, default and
\* explicit TTL.
NextMemory ==
    \/ Tick(1)
    \/ \E u \in RawUsers, c \in {<<"a">>, <<"B">>} :
          store_memory(u, c, "general", "short_term", None, <<>>, Some(1))
    \/ \E u \in RawUsers, c \in {<<"a">>, <<"B">>} :
          store_memory(u, c, "general", "long_term", None, <<>>, None)
    \/ \E u \in Users : recall_memory(u, <<"a">>, None, None, None, <<>>, 2)
    \/ \E id \in MemoryIds, u \in Users : delete_memory(id, u)
    \/ purge_expired_memories

SpecMemory == Init /\ [][NextMemory]_vars

\* Stores of both scopes with and without a ttl, purges, and restores that
\* bring purged rows back.
TtlHours == {None, Some(0), Some(1)}

NextExpiry ==
    \/ Tick(2)
    \/ \E c \in {<<"a">>, <<"B">>}, sc \in Scopes, ttl \in TtlHours :
          store_memory(<<"u">>, c, "general", sc, None, <<>>, ttl)
    \/ purge_expired_memories
    \/ run_backup("primary", None, "ok")
    \/ \E b \in BackupIds : restore_from_backup(Some(b), None)

SpecExpiry == Init /\ [][NextExpiry]_vars

\* Single entries: tagged stores of two users, gets and deletes by id.
NextEntry ==
    \/ Tick(1)
    \/ \E u \in RawUsers, c \in RawContents :
          store_memory(u, c, "general", "long_term", None, <<"x">>, None)
    \/ \E id \in MemoryIds, u \in Users : get_memory(id, u)
    \/ \E id \in MemoryIds, u \in Users : delete_memory(id, u)

SpecEntry == Init /\ [][NextEntry]_vars

\* The backup scheduler alone, on an otherwise idle system.
NextScheduler ==
    \/ \E o \in FailurePoints \cup {"ok"} : SchedulePrimary(o)
    \/ \E o \in FailurePoints \cup {"ok"} : ScheduleSecondary(o)
    \/ \E o \in FailurePoints \cup {"ok"} : ScheduleArchive(o)
    \/ ScheduleSleep

SpecScheduler == Init /\ [][NextScheduler]_vars

\* The event loop resumes the scheduler coroutine whenever it can go on: every
\* await in the loop (a run, the sleep) completes or raises.
SpecSchedulerLive == SpecScheduler /\ WF_vars(NextScheduler)

\* Full and user-scoped backups of a database that holds entries,
\* associations and sessions of two users.
NextExport ==
    \/ \E u \in Users, c \in {<<"a">>, <<"B">>} :
          store_memory(u, c, "general", "long_term", None, <<"x">>, None)
    \/ \E u \in Users, k \in SessionKeys : create_session(u, k)
    \/ \E u \in FullOrUser : run_backup("primary", u, "ok")

SpecExport == Init /\ [][NextExport]_vars

\* Verification of backups that succeeded, failed or were damaged on disk.
NextVerify ==
    \/ Tick(1)
    \/ \E c \in RawContents :
          store_memory(<<"u">>, c, "general", "long_term", None, <<>>, None)
    \/ \E bt \in BackupTypes, o \in FailurePoints \cup {"ok"} :
          run_backup(bt, None, o)
    \/ \E q \in DOMAIN files, k \in DamageKinds : DamageFile(q, k)
    \/ \E b \in BackupIds : verify_backup(b)

SpecVerify == Init /\ [][NextVerify]_vars

\* Restores by id requested before, while and after the backup of that id
\* runs, whether it succeeds or raises.
NextRefuse ==
    \/ \E c \in {<<"a">>, <<"B">>} :
          store_memory(<<"u">>, c, "general", "long_term", None, <<>>, None)
    \/ \E id \in MemoryIds : delete_memory(id, <<"u">>)
    \/ BackupBegin("primary", None)
    \/ BackupWrite
    \/ BackupFinalize
    \/ BackupRotate
    \/ BackupExcept
    \/ \E b \in BackupIds : restore_from_backup(Some(b), None)

SpecRefuse == Init /\ [][NextRefuse]_vars

\* Stores with and without tags by two users, with soft deletes between
\* them.
LinkTags == {<<>>, <<"x">>, <<"y", "x">>, <<"z">>}

NextLink ==
    \/ \E u \in Users, c \in {<<"a">>, <<"B">>}, tags \in LinkTags :
          store_memory(u, c, "general", "long_term", None, tags, None)
    \/ \E id \in MemoryIds, u \in Users : delete_memory(id, u)

SpecLink == Init /\ [][NextLink]_vars

\* Stores whose tag lists overlap fully, by a third and by an eleventh.
StrengthTags == {<<"x">>, <<"x", "y", "z">>, <<"q">>,
                 <<"x", "b", "c", "d", "e", "f", "g", "h", "i", "j", "k">>}

NextStrength ==
    \E u \in Users, c \in {<<"a">>, <<"B">>}, tags \in StrengthTags :
        store_memory(u, c, "general", "long_term", None, tags, None)

SpecStrength == Init /\ [][NextStrength]_vars

\* Sessions created, refreshed by either user, updated and deactivated
\* while the clock runs.
NextSession ==
    \/ Tick(1)
    \/ \E u \in Users, k \in SessionKeys : create_session(u, k)
    \/ \E k \in SessionKeys, cx \in Contexts : update_session_context(k, cx)
    \/ \E k \in SessionKeys : DeactivateSession(k)

SpecSession == Init /\ [][NextSession]_vars

\* The scoring function and the ranking on inputs drawn from small sets:
\* entries recalled never, a few times and often, new and three days old.
ScoreKeywords == {<<>>, <<<<"a">>>>, <<<<"a">>, <<"b">>>>}
ScoreContents == {<<>>, <<"a">>, <<"a", "B">>, <<"c">>}
ScoreCounts == {0, 12, 100, 150}
ScoreHours == {0, 72}
RankQueries == {<<"a">>, <<"a", " ", "B">>}
RankNow == 72

\* A row of user u as recalls and the clock have left it.
RankRow(id, content, access_count, created_at) ==
    [NewMemoryRow(id, <<"u">>, None, "general", "long_term", content, <<>>,
                  None, created_at) EXCEPT !.access_count = access_count]

RankRows(id) ==
    {RankRow(id, c, n, RankNow - h) :
        c \in ScoreContents \ {<<>>}, n \in ScoreCounts, h \in ScoreHours}

NextRank ==
    \/ \E kw \in ScoreKeywords, c \in ScoreContents, n \in ScoreCounts,
          h \in ScoreHours : ComputeScore(kw, c, n, h)
    \/ \E r1 \in RankRows(1), r2 \in RankRows(2), q \in RankQueries :
          \E fetched \in RecallFetches({r1, r2}, 2 * OVERFETCH_FACTOR) :
              RankFetched(fetched, <<"u">>, q, 2, RankNow)

SpecRank == Init /\ [][NextRank]_vars

\* Recalls with limit 1 over four entries of user u stored in four
\* successive hours, matching the query or not, recalled before or not.
\* Each entry has a content of its own, as the duplicate check requires.
OverfetchMarks == <<"w", "x", "y", "z">>
OverfetchContents(id) == {<<"a", OverfetchMarks[id]>>, <<"c", OverfetchMarks[id]>>}
OverfetchCounts == {0, 12}

OverfetchRows(id) ==
    {RankRow(id, c, n, RankNow - 5 + id) :
        c \in OverfetchContents(id), n \in OverfetchCounts}

NextOverfetch ==
    \E r1 \in OverfetchRows(1), r2 \in OverfetchRows(2),
       r3 \in OverfetchRows(3), r4 \in OverfetchRows(4) :
        RecallAmong({r1, r2, r3, r4}, <<"u">>, <<"a">>, 1, RankNow)

SpecOverfetch == Init /\ [][NextOverfetch]_vars

\* Short-lived entries of user u stored, read, soft-deleted and purged, with
\* full backups and restores in between; every request made is served.
NextPermanent ==
    \/ Tick(2)
    \/ \E c \in {<<"a">>, <<"B">>} :
          store_memory(<<"u">>, c, "general", "short_term", None, <<>>, Some(1))
    \/ \E id \in MemoryIds : get_memory(id, <<"u">>)
    \/ recall_memory(<<"u">>, <<"a">>, None, None, None, <<>>, 1)
    \/ \E id \in MemoryIds : delete_memory(id, <<"u">>)
    \/ purge_expired_memories
    \/ run_backup("primary", None, "ok")
    \/ \E b \in BackupIds : restore_from_backup(Some(b), None)

SpecPermanent == Init /\ [][NextPermanent]_vars /\ WF_vars(NextPermanent)

\* run_backup called by one request after another.
RepeatedBackup(backup_type, user_id) ==
    /\ next_id.backup <= MaxAttempts
    /\ BackupRun(backup_type, user_id, "ok")
    /\ UNCHANGED <<now, scheduler>>

\* Full backups and backups of two users whose ids begin with the same
\* eight characters, while entries are stored and the clock runs.
ArtifactUsers == {<<"c", "u", "s", "t", "o", "m", "e", "r", "1">>,
                  <<"c", "u", "s", "t", "o", "m", "e", "r", "2">>}

NextArtifact ==
    \/ Tick(1)
    \/ \E u \in ArtifactUsers :
          store_memory(u, <<"a">>, "general", "long_term", None, <<>>, None)
    \/ \E bt \in BackupTypes, u \in {None} \cup {Some(x) : x \in ArtifactUsers} :
          RepeatedBackup(bt, u)

SpecArtifact == Init /\ [][NextArtifact]_vars

\* Stores that return, that are refused by validation and that lose the
\* database after their INSERT.
NextAtomic ==
    \/ \E u \in RawUsers, c \in RawContents, tags \in TagLists :
          store_memory(u, c, "general", "long_term", None, tags, None)
    \/ \E u \in RawUsers, c \in RawContents, tags \in TagLists :
          StoreAutoLinkRaises(u, c, "general", "long_term", None, tags, None)
    \/ \E id \in MemoryIds, u \in Users : delete_memory(id, u)

SpecAtomic == Init /\ [][NextAtomic]_vars

\* Encryption for one user and decryption by the same or another user, on
\* plaintexts and user ids drawn from small sets.
CryptoUsers == Users \cup {<<>>, <<"u", "v">>, <<" ", "u">>}
CryptoTexts == RawContents \cup {<<>>, <<"a", "B">>, <<"c">>}

NextCrypto ==
    \E p \in CryptoTexts, u \in CryptoUsers, v \in CryptoUsers :
        EncryptThenDecrypt(p, u, v)

SpecCrypto == Init /\ [][NextCrypto]_vars

\* Backup runs that may lose the database in their except block or be
\* cancelled at shutdown.
BackupStep ==
    \/ BackupWrite
    \/ BackupFinalize
    \/ BackupRotate
    \/ BackupExcept
    \/ BackupExceptUpdateFails

NextShutdown ==
    \/ Tick(1)
    \/ \E c \in {<<"a">>, <<"B">>} :
          store_memory(<<"u">>, c, "general", "long_term", None, <<>>, None)
    \/ \E bt \in BackupTypes : BackupBegin(bt, None)
    \/ BackupWrite
    \/ BackupFinalize
    \/ BackupRotate
    \/ BackupExcept
    \/ BackupExceptUpdateFails
    \/ BackupCancel

\* A run that was begun goes on until it returns or raises: each of its
\* awaits completes or raises. Nothing obliges a cancellation to come.
SpecShutdown == Init /\ [][NextShutdown]_vars /\ WF_vars(BackupStep)

\* ------------------------------------------------------------------ claims
\* The steps that are calls of restore_from_backup.
RestoreStep ==
    \/ \E b \in BackupIds : restore_from_backup(Some(b), None)
    \/ \E q \in DOMAIN files : restore_from_backup(None, Some(q))

\* The rows the artifact of the last successful restore was exported from.
RestoredExport == files[last.path].exported

C2_AtMostOneConcurrentInsert ==
    \A w1, w2 \in Workers :
        (/\ w1 # w2
         /\ pending[w1].pc = "done" /\ pending[w2].pc = "done"
         /\ pending[w1].user_id = pending[w2].user_id
         /\ pending[w1].content = pending[w2].content)
        => /\ ~(pending[w1].status = "stored" /\ pending[w2].status = "stored")
           /\ Cardinality(
                 {r \in memory_entries :
                     /\ r.user_id = pending[w1].user_id
                     /\ r.content_hash = hash_content(pending[w1].content)})
                 <= 1

\* Both calls passed the duplicate SELECT before either inserted: one stored
\* the row, the database rejected the other.
C2_SecondInsertRejected ==
    \E w1, w2 \in Workers :
        /\ w1 # w2
        /\ pending[w1].pc = "done" /\ pending[w2].pc = "done"
        /\ pending[w1].status = "stored"
        /\ pending[w2].status = "error"
        /\ pending[w2].error = Some("UniqueViolationError")
        /\ pending[w1].user_id = pending[w2].user_id
        /\ pending[w1].content = pending[w2].content

\* C3: a catalog row enters the catalog in status running, leaves running at
\* most once, for success or failed, and is never changed after that, the
\* rotation that follows the success update included.
C3_CatalogStatusIsFinal ==
    [][/\ \A r \in backup_catalog' :
             (~\E o \in backup_catalog : o.id = r.id) => r.status = "running"
       /\ \A o \in backup_catalog :
             \E r \in backup_catalog' :
                 /\ r.id = o.id
                 /\ IF o.status = "running"
                    THEN r = o \/ r.status \in {"success", "failed"}
                    ELSE r = o]_vars

\* The catalog row of backup b, its artifact on disk.
CatalogRow(b) == CHOOSE r \in backup_catalog : r.id = b

ChecksumDiffers(b) ==
    /\ \E r \in backup_catalog : r.id = b /\ r.status = "success"
    /\ CatalogRow(b).backup_path \in DOMAIN files
    /\ checksum_bytes(files[CatalogRow(b).backup_path].data)
           # CatalogRow(b).checksum

C5_RestoreKeepsExistingRows ==
    [][RestoreStep => /\ memory_entries \subseteq memory_entries'
                      /\ context_sessions \subseteq context_sessions']_vars

\* A restore has just met an entry and a session that changed in the database
\* after the export, and the database still has its own versions.
C5_ConflictingRowsKept ==
    /\ last.op = "restore_from_backup"
    /\ last.status = "success"
    /\ \E e \in RestoredExport.memory_entries :
          \E r \in memory_entries :
              r.id = e.id /\ r.access_count # e.access_count
    /\ \E x \in RestoredExport.context_sessions :
          \E c \in context_sessions :
              /\ c.session_id = x.session_id
              /\ c.message_count # x.message_count

\* C6: the restored_memories and restored_sessions a restore reports are the
\* numbers of rows it added to the two tables.
C6_CountsAreRowsAdded ==
    [][(RestoreStep /\ last'.status = "success")
         => /\ last'.restored_memories
                  = Cardinality(memory_entries' \ memory_entries)
            /\ last'.restored_sessions
                  = Cardinality(context_sessions' \ context_sessions)]_vars

\* The store holds none of the exported records.
HoldsNoneOf(exported) ==
    /\ \A e \in exported.memory_entries :
          ~\E r \in memory_entries : r.id = e.id
    /\ \A a \in exported.memory_associations :
          ~\E r \in memory_associations : r.id = a.id
    /\ \A x \in exported.context_sessions :
          ~\E r \in context_sessions :
              r.id = x.id \/ r.session_id = x.session_id

\* Two rows are the same record (the times of the last write apart).
SameEntry(r, e) == r = [e EXCEPT !.updated_at = r.updated_at]

SameSession(r, x) == r = [x EXCEPT !.last_active_at = r.last_active_at]

\* C7: restoring a full backup into a store that holds none of its records
\* brings back every exported entry (active flag and counters included),
\* association and session (context included).
C7_RoundTripReproducesRecords ==
    [][\A b \in BackupIds :
          (/\ restore_from_backup(Some(b), None)
           /\ last'.status = "success"
           /\ HoldsNoneOf(files[CatalogRow(b).backup_path].exported))
          => LET exported == files[CatalogRow(b).backup_path].exported
             IN /\ \A e \in exported.memory_entries :
                       \E r \in memory_entries' : SameEntry(r, e)
                /\ exported.memory_associations
                       \subseteq memory_associations'
                /\ \A x \in exported.context_sessions :
                       \E r \in context_sessions' : SameSession(r, x)]_vars

\* C8: every association strength is within [0, 1] after any sequence of
\* create, strengthen (with a positive or a negative delta), auto-link and
\* decay.
C8_StrengthWithinUnitInterval ==
    \A r \in memory_associations : 0 <= r.strength /\ r.strength <= STRENGTH_ONE

\* C9: no two associations have the same (source, target, type), and right
\* after a create the one edge of the triple carries the requested strength
\* clamped into [0, 1].
C9_OneEdgePerTriple ==
    /\ \A r1, r2 \in memory_associations :
          SameTriple(r1, r2.source_memory_id, r2.target_memory_id,
                     r2.association_type) => r1 = r2
    /\ (last.op = "create_association" /\ last.status = "ok")
          => \E r \in memory_associations :
                /\ SameTriple(r, last.source_id, last.target_id,
                              last.association_type)
                /\ r.strength = IF last.requested < 0 THEN 0
                                ELSE IF last.requested > STRENGTH_ONE
                                THEN STRENGTH_ONE
                                ELSE last.requested

\* A create has just hit an existing triple whose strength was another one.
C9_RecreatedWithNewStrength ==
    /\ last.op = "create_association"
    /\ last.status = "ok"
    /\ last.previous # {}
    /\ \E r \in memory_associations :
          /\ SameTriple(r, last.source_id, last.target_id,
                        last.association_type)
          /\ r.strength \notin last.previous

\* C10: every entry a recall returns belongs to the requesting user, is
\* active, and has no expiry or an expiry later than the time of the call.
C10_RecallReturnsLiveOwnEntries ==
    last.op = "recall_memory"
    => \A i \in 1..Len(last.results) :
          \E r \in memory_entries :
              /\ r.id = last.results[i].id
              /\ r.user_id = last.user_id
              /\ r.is_active
              /\ r.expires_at = None \/ r.expires_at[1] > last.at

\* A recall with room left in its limit has just returned an entry while an
\* active short_term entry of the same user, past its expiry and not yet
\* purged, stayed out of the results.
C10_ExpiredUnpurgedLeftOut ==
    /\ last.op = "recall_memory"
    /\ Len(last.results) >= 1
    /\ Len(last.results) < last.limit
    /\ \E r \in memory_entries :
          /\ r.user_id = last.user_id
          /\ r.is_active
          /\ r.scope = "short_term"
          /\ r.expires_at # None
          /\ r.expires_at[1] <= last.at
          /\ \A i \in 1..Len(last.results) : last.results[i].id # r.id

\* C11: a purge removes exactly the short_term rows whose expires_at has
\* passed; every other row, every long_term row among them, stays as it was,
\* and no other table changes.
C11_PurgeRemovesExactlyExpiredShortTerm ==
    [][purge_expired_memories
         => /\ memory_entries' \subseteq memory_entries
            /\ \A r \in memory_entries :
                  (r \notin memory_entries')
                     <=> /\ r.scope = "short_term"
                         /\ r.expires_at # None
                         /\ r.expires_at[1] < now
            /\ UNCHANGED <<memory_associations, context_sessions,
                           backup_catalog, files>>]_vars

\* A purge has just removed a row while a long_term row at least as old as
\* the removed one's expiry stayed.
C11_PurgedBesideOlderLongTerm ==
    /\ last.op = "purge_expired_memories"
    /\ last.count >= 1
    /\ \E r \in memory_entries :
          r.scope = "long_term" /\ r.created_at + 1 < now

\* C12: in every state an entry has an expires_at exactly when its scope is
\* short_term, whatever ttl its store named and also when a restore inserted
\* it.
C12_ExpiryIffShortTerm ==
    \A r \in memory_entries : (r.expires_at # None) <=> r.scope = "short_term"

\* A restore has just brought back a purged short_term entry (its last write
\* is later than its creation) beside a long_term entry.
C12_RestoredBesideLongTerm ==
    /\ last.op = "restore_from_backup"
    /\ last.status = "success"
    /\ \E r \in memory_entries : /\ r.scope = "short_term"
                                 /\ r.updated_at > r.created_at
    /\ \E r \in memory_entries : r.scope = "long_term"

\* The steps that are calls of recall_memory.
RecallStep ==
    \E u \in Users, l \in {1, 2} :
        recall_memory(u, <<"a">>, None, None, None, <<>>, l)

\* C13: a recall raises access_count by exactly 1 for exactly the entries it
\* returns and leaves the access_count of every other entry as it was:
\* candidates the limit cut off and entries of other users included.
C13_RecallCountsReturnedOnly ==
    [][RecallStep
         => /\ {r.id : r \in memory_entries'} = {r.id : r \in memory_entries}
            /\ \A r \in memory_entries : \A x \in memory_entries' :
                  r.id = x.id
                  => x.access_count =
                        IF \E i \in 1..Len(last'.results) :
                               last'.results[i].id = r.id
                        THEN r.access_count + 1
                        ELSE r.access_count]_vars

\* A recall has just returned as many entries as its limit allows, each
\* counted once more, while another live entry of the caller, cut off by the
\* limit, still has the count it had.
C13_CandidateCutByLimit ==
    /\ last.op = "recall_memory"
    /\ Len(last.results) = last.limit
    /\ \E r \in memory_entries :
          /\ r.user_id = last.user_id
          /\ r.is_active
          /\ r.expires_at = None \/ r.expires_at[1] > last.at
          /\ \A i \in 1..Len(last.results) : last.results[i].id # r.id
          /\ r.access_count = 0
    /\ \A i \in 1..Len(last.results) :
          \E r \in memory_entries : /\ r.id = last.results[i].id
                                    /\ r.access_count
                                         = last.results[i].access_count + 1

\* C14: the access counter of an entry id never decreases: whatever stores,
\* recalls, deletes, purges, backups and restores have run, an entry carries
\* the highest access_count its id ever had.
C14_AccessCountNeverDecreases ==
    \A r \in memory_entries : r.access_count >= peak[r.id]

\* C15: get returns an entry exactly when an entry of that id exists, is
\* active and belongs to the asking user, and then it is that entry; for an
\* absent, soft-deleted or foreign id it returns nothing.
C15_GetReturnsOwnActiveEntry ==
    last.op = "get_memory"
    => /\ (last.result # None)
             <=> \E r \in memory_entries : /\ r.id = last.id
                                           /\ r.user_id = last.user_id
                                           /\ r.is_active
       /\ last.result # None
             => /\ last.result[1].id = last.id
                /\ last.result[1].user_id = last.user_id

\* A get of the caller's own soft-deleted entry has just returned nothing.
C15_SoftDeletedNotReturned ==
    /\ last.op = "get_memory"
    /\ last.result = None
    /\ \E r \in memory_entries : /\ r.id = last.id
                                 /\ r.user_id = last.user_id
                                 /\ ~r.is_active

\* C16: delete reports success exactly when it turns an active entry of the
\* caller inactive, and the row is kept; for an absent, foreign or already
\* deleted entry it reports not-found and no row changes.
C16_DeleteReportsActualSoftDelete ==
    [][\A id \in MemoryIds, u \in Users :
          delete_memory(id, u)
          => LET own == {r \in memory_entries :
                            r.id = id /\ r.user_id = u /\ r.is_active}
             IN IF own # {}
                THEN /\ last'.deleted
                     /\ \E x \in memory_entries' : x.id = id /\ ~x.is_active
                     /\ memory_entries \ own \subseteq memory_entries'
                ELSE /\ ~last'.deleted
                     /\ memory_entries' = memory_entries]_vars

\* C17: a store whose sanitized content an active entry of the same user
\* already carries returns duplicate with that entry's id and writes no
\* entry and no association; otherwise, entries of other users with the same
\* content notwithstanding, it inserts a new entry for the user.
C17_DuplicateWritesNothing ==
    [][\A u \in RawUsers, c \in RawContents :
          store_memory(u, c, "general", "long_term", None, <<"x">>, None)
          => LET twins == {r \in memory_entries :
                              /\ r.user_id = sanitize_input(u)
                              /\ r.is_active
                              /\ r.content_hash
                                    = hash_content(sanitize_input(c))}
             IN IF twins # {}
                THEN /\ last'.status = "duplicate"
                     /\ last'.id \in {r.id : r \in twins}
                     /\ memory_entries' = memory_entries
                     /\ memory_associations' = memory_associations
                ELSE /\ last'.status = "stored"
                     /\ memory_entries \subseteq memory_entries'
                     /\ \E r \in memory_entries' \ memory_entries :
                           /\ r.id = last'.id
                           /\ r.user_id = sanitize_input(u)
                           /\ r.content_hash
                                 = hash_content(sanitize_input(c))
                     /\ Cardinality(memory_entries')
                           = Cardinality(memory_entries) + 1]_vars

\* Two users each hold an active entry of the same content, and a further
\* store of it by one of them has just been answered with duplicate and the
\* id of that user's entry.
C17_DuplicateBesideOtherUsersTwin ==
    /\ last.op = "store_memory"
    /\ last.status = "duplicate"
    /\ \E r1, r2 \in memory_entries :
          /\ r1.id = last.id
          /\ r1.user_id = last.user_id
          /\ r2.user_id # r1.user_id
          /\ r2.content_hash = r1.content_hash
          /\ r1.is_active /\ r2.is_active

\* C18: counting ticks from the start of the scheduler, every tick starts a
\* primary run, exactly the 6th, 12th, ... ticks start a secondary run and
\* exactly the 24th, 48th, ... an archive run, earlier failures
\* notwithstanding, and the counter is zero after such a 24th tick. Stated
\* for the ticks in which no run raises, when the tick has done its work.
C18_TiersFollowTickNumber ==
    (scheduler.pc = "sleep" /\ ~scheduler.failed)
    => /\ "primary" \in scheduler.started
       /\ "secondary" \in scheduler.started
             <=> scheduler.tick % SECONDARY_EVERY = 0
       /\ "archive" \in scheduler.started
             <=> scheduler.tick % ARCHIVE_EVERY = 0
       /\ scheduler.tick % ARCHIVE_EVERY = 0 => scheduler.hourly_count = 0

\* The tick before the current one: one of its runs raised.
PreviousTickRaised ==
    \E r \in RaisedRuns : r.started_at + SLEEP_HOURS = now

\* C19: a run that raises does not end the scheduler: whenever a run of a
\* tick has raised, the next tick comes and starts a primary backup.
C19_RaiseDoesNotEndLoop ==
    (scheduler.failed /\ scheduler.tick < MaxTicks)
        ~> (PreviousTickRaised /\ "primary" \in scheduler.started)

\* The tick after one whose secondary run raised has started its primary
\* run.
C19_PrimaryAfterRaisedSecondary ==
    /\ \E r \in RaisedRuns :
          r.backup_type = "secondary" /\ r.started_at + SLEEP_HOURS = now
    /\ "primary" \in scheduler.started

\* C20: the artifact of a backup run with a user scope holds records of that
\* user only: every memory entry and every session in it carries the user's
\* id, and every association in it links entries of the user.
C20_UserScopedArtifactHoldsOwnRecords ==
    \A p \in DOMAIN files :
        LET doc == Decompress(files[p].data)
            user == doc.metadata.user_id[1]
            own == {UuidStr(r.id) : r \in {x \in memory_entries :
                                              x.user_id = user}}
        IN doc.metadata.scope = "user"
           => /\ \A i \in 1..Len(doc.memory_entries) :
                    doc.memory_entries[i].user_id = user
              /\ \A i \in 1..Len(doc.memory_associations) :
                    /\ doc.memory_associations[i].source_memory_id \in own
                    /\ doc.memory_associations[i].target_memory_id \in own
              /\ \A i \in 1..Len(doc.context_sessions) :
                    doc.context_sessions[i].user_id = user

\* What the catalog says about the run_backup call that `last` reports.
LastRunRecorded ==
    \E r \in backup_catalog :
       /\ r.id = last.backup_id
       /\ (last.status = "error"
              /\ last.error \in {"export", "write", "upload"})
          => /\ r.status = "failed"
             /\ r.error_message = Some(last.error)
       /\ last.status = "success"
          => /\ r.status = "success"
             /\ r.backup_path = last.path
             /\ r.backup_path \in DOMAIN files
             /\ LET artifact == files[r.backup_path].data
                IN /\ r.checksum = checksum_bytes(artifact)
                   /\ r.size_bytes = Some(SizeBytes(artifact))
                   /\ r.records_count
                         = Some(Len(Decompress(artifact).memory_entries))
                   /\ last.checksum = r.checksum

C22_VerifyComparesChecksums ==
    [][\A b \in BackupIds :
          verify_backup(b)
          => /\ last'.valid
                <=> \E r \in backup_catalog :
                       /\ r.id = b
                       /\ r.backup_path \in DOMAIN files
                       /\ checksum_bytes(files[r.backup_path].data)
                             = r.checksum
             /\ UNCHANGED <<memory_entries, memory_associations,
                            context_sessions, backup_catalog, files,
                            s3_objects>>]_vars

\* The artifact of a successful backup was damaged on disk and the
\* verification has just reported it invalid.
C22_DamagedArtifactInvalid ==
    /\ last.op = "verify_backup"
    /\ last.file_exists
    /\ ~last.valid
    /\ \E r \in backup_catalog :
          /\ r.id = last.backup_id
          /\ r.status = "success"
          /\ files[r.backup_path].data.damage # "none"

\* C23: a restore by id whose catalog row is missing, running or failed is
\* refused with an error and imports no memory entry and no session.
C23_RestoreRefusedUnlessSuccess ==
    [][\A b \in BackupIds :
          (/\ restore_from_backup(Some(b), None)
           /\ ~\E r \in backup_catalog : r.id = b /\ r.status = "success")
          => /\ last'.status = "error"
             /\ memory_entries' = memory_entries
             /\ context_sessions' = context_sessions]_vars

\* A restore was refused for a backup whose rotation raised: the row is
\* failed although its artifact is on disk at the recorded path.
C23_RefusedWithArtifactOnDisk ==
    /\ last.op = "restore_from_backup"
    /\ last.status = "error"
    /\ \E r \in backup_catalog :
          /\ Some(r.id) = last.backup_id
          /\ r.status = "failed"
          /\ r.backup_path \in DOMAIN files

\* C24: strengthen_association on a triple (source, target, type) that no
\* association carries returns nothing and leaves the table of associations
\* as it was: no row is created, none is changed.
C24_StrengthenMissingEdgeIsNoOp ==
    [][\A a \in MemoryIds, b \in MemoryIds, ty \in GraphTypes, d \in Deltas :
          (/\ strengthen_association(a, b, ty, d)
           /\ ~\E r \in memory_associations :
                  /\ r.source_memory_id = a
                  /\ r.target_memory_id = b
                  /\ r.association_type = ty)
          => /\ ~last'.found
             /\ memory_associations' = memory_associations]_vars

\* Nothing was returned for a triple whose two entries are linked by an
\* association of another type.
C24_MissingTypeBesideLinkedPair ==
    /\ last.op = "strengthen_association"
    /\ ~last.found
    /\ \E r \in memory_associations :
          /\ r.source_memory_id = last.source_id
          /\ r.target_memory_id = last.target_id
          /\ r.association_type # last.association_type

\* C25: the associations a store writes in its auto-link pass are all of
\* type related_to, lead from the entry just stored to a different entry
\* that is active, belongs to the same user and shares a tag with it; and
\* associations_created, when returned, is the number of associations
\* written.
C25_AutoLinksOwnActiveTagMates ==
    [][\A u \in Users, c \in {<<"a">>, <<"B">>}, tags \in LinkTags :
          store_memory(u, c, "general", "long_term", None, tags, None)
          => LET written == memory_associations' \ memory_associations
             IN /\ \A e \in written :
                      /\ last'.status = "stored"
                      /\ e.association_type = "related_to"
                      /\ e.source_memory_id = last'.id
                      /\ e.target_memory_id # last'.id
                      /\ \E n, r \in memory_entries' :
                            /\ n.id = e.source_memory_id
                            /\ n \notin memory_entries
                            /\ r.id = e.target_memory_id
                            /\ r.is_active
                            /\ r.user_id = n.user_id
                            /\ Range(r.tags) \cap Range(n.tags) # {}
                /\ memory_associations \subseteq memory_associations'
                /\ (last'.status = "stored"
                       /\ last'.associations_created # None)
                   => last'.associations_created[1] = Cardinality(written)]_vars

\* A store has linked the new entry to an older one and returned
\* associations_created = 1.
C25_LinkedToOlderEntry ==
    /\ last.op = "store_memory"
    /\ last.status = "stored"
    /\ last.associations_created = Some(1)
    /\ \E e \in memory_associations :
          e.source_memory_id = last.id /\ e.target_memory_id # last.id

\* C26: create_session for a key that already has a session keeps exactly
\* one session for the key and changes nothing of it but last_active_at:
\* owner, message count, stored context, start time and active flag stay.
C26_RefreshKeepsSession ==
    [][\A u \in Users, k \in SessionKeys :
          (/\ create_session(u, k)
           /\ \E r \in context_sessions : r.session_id = k)
          => /\ Cardinality({r \in context_sessions' : r.session_id = k}) = 1
             /\ Cardinality(context_sessions')
                   = Cardinality(context_sessions)
             /\ \A r \in context_sessions :
                   \E x \in context_sessions' :
                      /\ x = [r EXCEPT !.last_active_at = x.last_active_at]
                      /\ r.session_id = k => x.last_active_at = now]_vars

\* A session that has counted a message was refreshed, at a later hour, by
\* a user other than its owner.
C26_RefreshedByAnotherUser ==
    /\ last.op = "create_session"
    /\ \E r \in context_sessions :
          /\ r.session_id = last.session_id
          /\ r.user_id # last.user_id
          /\ r.message_count > 0
          /\ r.started_at < r.last_active_at
          /\ r.last_active_at = now

\* C27: update_session_context on an active session stores the new context
\* and adds exactly 1 to its message count in the same step, reporting one
\* row; on a key with no session or with an inactive one it reports that no
\* row was affected and no session changes.
C27_UpdateCountsOneMessage ==
    [][\A k \in SessionKeys, cx \in Contexts :
          update_session_context(k, cx)
          => LET active == {r \in context_sessions :
                               r.session_id = k /\ r.is_active}
             IN IF active # {}
                THEN /\ last'.updated
                     /\ Cardinality(context_sessions')
                           = Cardinality(context_sessions)
                     /\ \A r \in active :
                           \E x \in context_sessions' :
                              /\ x.id = r.id
                              /\ x.context_data_encrypted
                                    = Some(encrypt(cx))
                              /\ x.message_count = r.message_count + 1
                              /\ x.user_id = r.user_id
                              /\ x.is_active
                ELSE /\ ~last'.updated
                     /\ context_sessions' = context_sessions]_vars

\* An update has just reported no row for a session that is there but
\* inactive, its message count still zero.
C27_InactiveSessionNotUpdated ==
    /\ last.op = "update_session_context"
    /\ ~last.updated
    /\ \E r \in context_sessions :
          /\ r.session_id = last.session_id
          /\ ~r.is_active
          /\ r.message_count = 0

\* The content of the fetched row a result stands for.
RankedContent(x) ==
    LET row == CHOOSE i \in 1..Len(last.fetched) : last.fetched[i].id = x.id
    IN decrypt_with_user_key(last.fetched[row].content_encrypted, <<"u">>)

ContainsAll(content, keywords) ==
    \A k \in 1..Len(keywords) : Contains(Lower(content), keywords[k])

ContainsNone(content, keywords) ==
    \A k \in 1..Len(keywords) : ~Contains(Lower(content), keywords[k])

\* C28: in the ranked result of a recall, whatever the access counts and
\* the ages, an entry whose content contains every keyword of the query
\* stands before every entry whose content contains none of them.
C28_FullMatchesRankAboveNonMatches ==
    last.op = "rank"
    => LET keywords == Split(Lower(last.query))
       IN \A i, j \in 1..Len(last.results) :
             (/\ ContainsAll(RankedContent(last.results[i]), keywords)
              /\ ContainsNone(RankedContent(last.results[j]), keywords))
             => i < j

\* The score the formula of the weighted sum gives, in ten-thousandths:
\* the keyword share is 0 when the keywords or the content are empty.
WeightedSumScore(query_keywords, memory_content, access_count, recency_hours) ==
    LET keyword == IF query_keywords = <<>> \/ memory_content = <<>> THEN 0
                   ELSE (50 * 10000000
                            * KeywordMatches(query_keywords, memory_content))
                        \div Len(query_keywords)
        total == keyword + 20 * freq_score(access_count)
                         + 30 * recency_score(recency_hours)
    IN (Min(1000000000, total) + 50000) \div 100000

\* C29: for every keyword list, content, access count and age the score is
\* min(1.0, 0.50 * keyword + 0.20 * frequency + 0.30 * recency) rounded to
\* four decimals, the keyword share being 0 when the keyword list or the
\* content is empty while frequency and recency still count.
C29_ScoreIsWeightedSum ==
    last.op = "compute_relevance_score"
    => last.score = WeightedSumScore(last.query_keywords,
                                     last.memory_content, last.access_count,
                                     last.recency_hours)

C31_RunningRowIsFinalized ==
    \A b \in BackupIds :
        (\E r \in backup_catalog : r.id = b /\ r.status = "running")
            ~> (\E r \in backup_catalog :
                    r.id = b /\ r.status \in {"success", "failed"})

\* The artifacts in the local directory of a tier.
TierFiles(fs, backup_type) == {q \in DOMAIN fs : q[1] = backup_type}

\* C32: a run_backup of a tier that returns leaves at most MAX_LOCAL_BACKUPS
\* artifacts in the directory of that tier; every file it removed is at most
\* as recent (by mtime) as every file it kept there; the files of the other
\* tiers are as they were.
C32_RotationKeepsNewest ==
    [][\A bt \in BackupTypes :
          BackupRun(bt, None, "ok") =>
             /\ Cardinality(TierFiles(files', bt)) <= MAX_LOCAL_BACKUPS
             /\ \A g \in TierFiles(files, bt) \ DOMAIN files',
                   k \in TierFiles(files', bt) :
                   files[g].mtime <= files'[k].mtime
             /\ \A q \in DOMAIN files :
                   q[1] # bt => q \in DOMAIN files' /\ files'[q] = files[q]]_vars

\* A primary run has returned with the directory full: the artifact of an
\* earlier successful run is gone, while the other tiers hold their files.
C32_Witness ==
    /\ last.op = "run_backup" /\ last.status = "success"
    /\ Cardinality(TierFiles(files, "primary")) = MAX_LOCAL_BACKUPS
    /\ TierFiles(files, "secondary") # {}
    /\ \E r \in backup_catalog :
          /\ r.status = "success" /\ r.backup_type = "primary"
          /\ r.backup_path \notin DOMAIN files

\* Tags two entries have in common, and the longer of their tag lists.
SharedCount(s, t) == Cardinality(Range(s.tags) \cap Range(t.tags))

LongerCount(s, t) == Max(Max(Len(s.tags), Len(t.tags)), 1)

\* The edges between the entries s and t, in either direction.
EdgesBetween(s, t) ==
    {a \in memory_associations :
        \/ a.source_memory_id = s.id /\ a.target_memory_id = t.id
        \/ a.source_memory_id = t.id /\ a.target_memory_id = s.id}

\* Two entries of one user carrying the same single tag are linked with
\* strength 1.0.
SingleTagPairsLinked ==
    \A s, t \in memory_entries :
        (s.id # t.id /\ s.user_id = t.user_id /\ Len(s.tags) = 1
            /\ s.tags = t.tags)
        => (\E a \in EdgesBetween(s, t) : a.strength = STRENGTH_ONE)

\* C33: every auto-link edge joins entries whose overlap
\* |shared tags| / max(|new tags|, |candidate tags|, 1) is at least 0.1, and
\* its strength is that quotient rounded to three decimals (within half a
\* thousandth of it); entries of one user carrying the same single tag are
\* linked with strength 1.0.
C33_StrengthIsRoundedOverlap ==
    /\ \A s, t \in memory_entries : \A a \in EdgesBetween(s, t) :
          /\ 10 * SharedCount(s, t) >= LongerCount(s, t)
          /\ 2 * (a.strength * LongerCount(s, t)
                    - STRENGTH_ONE * SharedCount(s, t)) <= LongerCount(s, t)
          /\ 2 * (STRENGTH_ONE * SharedCount(s, t)
                    - a.strength * LongerCount(s, t)) <= LongerCount(s, t)
    /\ SingleTagPairsLinked

\* The claim as stated: the strength of every auto-link edge is exactly
\* |shared tags| / max(|new tags|, |candidate tags|, 1).
C33_StrengthIsExactOverlap ==
    /\ \A s, t \in memory_entries : \A a \in EdgesBetween(s, t) :
          /\ 10 * SharedCount(s, t) >= LongerCount(s, t)
          /\ a.strength * LongerCount(s, t) = STRENGTH_ONE * SharedCount(s, t)
    /\ SingleTagPairsLinked

\* An entry with three tags and an entry with one of them are linked: one
\* shared tag of three.
C33_Witness ==
    \E s, t \in memory_entries : \E a \in EdgesBetween(s, t) :
        /\ SharedCount(s, t) = 1 /\ LongerCount(s, t) = 3
        /\ a.association_type = "related_to"

\* The score recall_memory gives the row r of the user for the query at t.
ScoreOf(r, user_id, query, t) ==
    compute_relevance_score(Split(Lower(query)),
        decrypt_with_user_key(r.content_encrypted, user_id),
        r.access_count, t - r.created_at)

\* C34: a recall returns min(limit, eligible entries) results, and no
\* eligible entry of the user that it leaves out has a strictly higher score
\* than an entry it returns.
C34_RecallReturnsBestOfAll ==
    last.op = "recall_memory" =>
        /\ Len(last.results) = Min(last.limit, Cardinality(last.eligible))
        /\ \A r \in last.eligible : \A i \in 1..Len(last.results) :
              r.id \in {last.results[j].id : j \in 1..Len(last.results)}
              \/ ScoreOf(r, last.user_id, last.query, last.at)
                    <= last.results[i].relevance_score

\* delete_memory(id, user) has just returned True.
DeleteSucceeded(id, user_id) ==
    /\ last.op = "delete_memory" /\ last.id = id /\ last.user_id = user_id
    /\ last.deleted

\* get_memory(id, user) or a recall of the user has just returned the entry.
ReturnsEntry(id, user_id) ==
    \/ /\ last.op = "get_memory" /\ last.id = id /\ last.user_id = user_id
       /\ last.result # None
    \/ /\ last.op = "recall_memory" /\ last.user_id = user_id
       /\ \E i \in 1..Len(last.results) : last.results[i].id = id

\* C35: once delete_memory(id, user) has returned True, no later get_memory
\* or recall of that user returns the entry id, whatever stores, purges,
\* backups and restores come in between.
C35_DeletedStaysGone ==
    \A id \in MemoryIds :
        [](DeleteSucceeded(id, <<"u">>) => [](~ReturnsEntry(id, <<"u">>)))

\* C36: two distinct backup attempts never write the same artifact path, and
\* the file a success row records, while it is in the directory, has the
\* recorded checksum.
C36_ArtifactPathsAreDistinct ==
    /\ \A r1, r2 \in backup_catalog :
          (r1.id # r2.id /\ r1.status = "success" /\ r2.status = "success")
          => r1.backup_path # r2.backup_path
    /\ \A r \in backup_catalog :
          (r.status = "success" /\ r.backup_path \in DOMAIN files)
          => checksum_bytes(files[r.backup_path].data) = r.checksum

\* C37: a store_memory call that raises leaves the table of memory entries
\* as it was.
C37_RaisingStoreWritesNothing ==
    [][(last'.op = "store_memory" /\ last'.status = "error")
          => memory_entries' = memory_entries]_vars

\* C38: when store_memory answers "duplicate", the entry it names is one a
\* recall of the user could return at that moment: active and not expired.
C38_DuplicateMeansVisible ==
    [][(/\ last'.op = "store_memory" /\ last'.status = "duplicate"
        /\ now' = now /\ memory_entries' = memory_entries)
          => \E r \in memory_entries :
                /\ r.id = last'.id /\ r.user_id = last'.user_id
                /\ r.is_active /\ NotExpired(r, now)]_vars

====
